---- MODULE Spec2Model ----
(***************************************************************************)
(* Model of grasshopper's polling engine and script supervisor:            *)
(*   - FetchAggregator (the registry of Fetchers), fetch_aggregator.rs     *)
(*   - Session (subscribe / next / kill_all_fetchers), fetch_aggregator.rs *)
(*   - Runtime::run (the supervisor loop of one script), lua_runtime.rs    *)
(*   - main (termination signal, join of the supervisor threads), main.rs  *)
(*   - Fetcher (the polling task, its last_data slot, next), fetcher.rs    *)
(* The forwarding task that Fetcher::subscribe spawns for a Session (the   *)
(* bridge) is not part of the sources at hand; it is modelled from the     *)
(* written specification (sections 4.1, 4.3 and 5).                        *)
(***************************************************************************)
EXTENDS Integers, Sequences, FiniteSets, TLC

\* ------------------------------------------------------------------ bounds

\* Bridge slots: the number of forwarding tasks alive at the same time.
MaxBridges == 2

\* Capacity of a Session's fan-in queue (mpsc::channel(32) in the source,
\* scaled down).
QueueCap == 2

\* Unread results a bridge's fan-out receiver can hold (32 in the written
\* specification, scaled down); a lagging receiver loses the oldest.
FanoutCap == 1

\* Ticks of a Fetcher's interval that are followed.
MaxTicks == 3

\* ------------------------------------------------------------ the universe

\* One Runtime (supervisor thread) and one Session per script file.
Scripts == {"s1", "s2"}

\* The order in which main collected the JoinHandles.
ScriptOrder == <<"s1", "s2">>

\* RequestPayload values a script may subscribe to.  Each differs from the
\* one before it in exactly one field: headers, method, body, url.
Targets ==
    { [url |-> "u1", method |-> "GET",  body |-> "none", headers |-> "h1"],
      [url |-> "u1", method |-> "GET",  body |-> "none", headers |-> "h2"],
      [url |-> "u1", method |-> "POST", body |-> "none", headers |-> "h2"],
      [url |-> "u1", method |-> "POST", body |-> "b1",   headers |-> "h2"],
      [url |-> "u2", method |-> "POST", body |-> "b1",   headers |-> "h2"] }

\* The payload the scripts subscribe to where one target is enough.
OneTarget ==
    { [url |-> "u1", method |-> "GET",  body |-> "none", headers |-> "h1"] }

NoTarget == [url |-> "", method |-> "", body |-> "", headers |-> ""]

\* A payload whose url Url::parse rejects; url is a String field, so the
\* value deserializes into a RequestPayload like any other.
MalformedUrl ==
    [url |-> "::", method |-> "GET", body |-> "none", headers |-> "h1"]

\* A Lua value whose method deserialize_method rejects.
BadMethod ==
    [url |-> "u1", method |-> "FETCH", body |-> "none", headers |-> "h1"]

\* Values a script may pass to gh._subscribe.
LuaValues == OneTarget \cup {MalformedUrl, BadMethod}

\* lua.from_value::<RequestPayload>: the method must be one of five names.
Deserializes(v) == v.method \in {"GET", "POST", "PUT", "DELETE", "PATCH"}

\* impl PartialEq / Hash for RequestPayload: url, method and body only.
PayloadKeyWithHeaders(t) == <<t.url, t.method, t.body, t.headers>>

PayloadKey(t) == <<t.url, t.method, t.body>>

\* The deduplication key as the written specification defines it.
Fingerprint(t) == <<t.url, t.method, t.body>>

Fingerprints == {Fingerprint(t) : t \in Targets \cup {MalformedUrl}}

BridgeIds == 1..MaxBridges

\* Callers of Fetcher::next on one Fetcher.
Consumers == {"c1", "c2"}

FreeBridge ==
    [st |-> "free", sess |-> "none", t |-> NoTarget, inbox |-> 0,
     cancelled |-> FALSE, old |-> FALSE, late |-> 0, period |-> 0]

VARIABLES
    pc,          \* position of each supervisor thread in Runtime::run
    lua,         \* the LuaInstance of each supervisor's current or last
                 \* attempt: alive or dropped, and the runs of its atexit
    outcome,     \* how the last script body of each supervisor ended
    slept,       \* the backoff sleep has elapsed since the last failure
    active,      \* script bodies of each supervisor currently executing
    kill_txs,    \* Session::kill_txs: the cancel handles, in push order
    queue,       \* Session's mpsc channel: the messages not yet received
    sub,         \* the subscribe call in progress: its payload and entry
    periods,     \* the period each Fetcher's task was spawned with, by
                 \* fingerprint (0 = no Fetcher)
    poisoned,    \* the mutexes a panic has poisoned: "fetchers" and the
                 \* Session mutex of each supervisor, by script
    lock,        \* owner of the FetchAggregator::fetchers mutex
    fetchers,    \* keys of FetchAggregator::fetchers
    pollers,     \* Fetcher tasks spawned so far, counted by fingerprint
    requested,   \* fingerprints of the payloads subscribed to so far
    bridges,     \* the forwarding tasks, by slot
    lateCall,    \* results enqueued by cancelled bridges since the last
                 \* kill_all_fetchers call of each Session (2 = two or more)
    TERMINATE,   \* static TERMINATE: AtomicBool
    host,        \* the process: running, returned, panicked or forced
    joined,      \* JoinHandles main has joined so far
    notified,    \* TERMINATE_NOTIFY.notify_waiters() has been called
    nones,       \* Nil results gh._next has handed to each script
                 \* (2 = two or more)
    route,       \* payload.primary_only and GRASSHOPPER_LOCAL_ADDRS, as the
                 \* task of the Fetcher finds them
    local_address_index,  \* the task's counter of dispatched requests
    fpc,         \* position of the Fetcher task in Fetcher::task
    ticks,       \* ticks of the task's interval so far
    produced,    \* results the task has published so far
    last_data,   \* Fetcher::last_data: 0 for None, else the number of the
                 \* result it holds (results are numbered as published)
    killed,      \* the Fetcher was dropped: its kill handle has fired
    polled,      \* the request of the current tick has been dispatched
    cpc,         \* position of each consumer in Fetcher::next
    got,         \* the results Fetcher::next returned to each consumer
    owed,        \* consumers that were suspended in Fetcher::next when the
                 \* latest result was published
    conv,        \* what the task's payload turns into at each tick: not
                 \* yet known, an error, a local target or a request
    resp,        \* the response of the current tick: its status and url
    newest,      \* the ResponsePayload of the newest result published
    arg,         \* math_utils: the value and the decimals of a call
    res          \* math_utils: what the functions returned for them

vars ==
    <<pc, outcome, slept, active, kill_txs, queue, sub, lock,
      fetchers, pollers, requested, bridges, lateCall, TERMINATE, host,
      joined, notified, nones, fpc, ticks, produced, last_data, killed,
      polled, cpc, got, owed, conv, resp, newest, arg, res, route,
      local_address_index, periods, poisoned, lua>>

supervisorVars == <<pc, outcome, slept, active>>
sessionVars == <<kill_txs, queue, sub, lateCall>>
registryVars == <<lock, fetchers, pollers, requested, periods, poisoned>>
processVars == <<TERMINATE, host, joined>>
shutdownVars == <<notified, nones>>
routeVars == <<route, local_address_index>>
fetcherVars ==
    <<fpc, ticks, produced, last_data, killed, polled, conv, resp, newest,
      routeVars>>
consumerVars == <<cpc, got, owed>>
mathVars == <<arg, res>>

\* --------------------------------------------------- rust_decimal::Decimal

\* A Decimal is a mantissa and a scale, m * 10^-s.  rust_decimal keeps a
\* 96-bit mantissa (at most 7.9 * 10^28) and a scale of at most 28; the
\* same type is followed here with a scale of at most MaxScale and a
\* mantissa of at most MantissaMax, a little under 10^(MaxScale + 1) as in
\* the library.
MaxScale == 2

MantissaMax == 792

Dec(m, s) == [ok |-> TRUE, m |-> m, s |-> s]

\* The call panicked.
Panic == [ok |-> FALSE, m |-> 0, s |-> 0]

RECURSIVE Pow10(_)
Pow10(n) == IF n = 0 THEN 1 ELSE 10 * Pow10(n - 1)

Abs(x) == IF x < 0 THEN -x ELSE x

\* Decimal::new(num, scale): panics if the scale exceeds the maximum.
DecimalNew(num, scale) == IF scale > MaxScale THEN Panic ELSE Dec(num, scale)

\* Rounding of a mantissa that loses p's digits: half to even.
RoundHalfEven(m, p) ==
    LET q == Abs(m) \div p
        r == Abs(m) % p
        a == IF 2 * r > p \/ (2 * r = p /\ q % 2 = 1) THEN q + 1 ELSE q
    IN IF m < 0 THEN -a ELSE a

\* a * b: exact if the scale of the product fits, else rounded to the
\* maximum scale; panics if the mantissa does not fit.
DecimalMul(a, b) ==
    LET m == a.m * b.m
        s == a.s + b.s
        r == IF s <= MaxScale THEN m
             ELSE RoundHalfEven(m, Pow10(s - MaxScale))
    IN IF Abs(r) > MantissaMax THEN Panic
       ELSE Dec(r, IF s <= MaxScale THEN s ELSE MaxScale)

\* a / b for b a power of ten (mantissa 1): exact; panics if the quotient
\* does not fit.
DecimalDiv(a, b) ==
    IF b.s <= a.s THEN Dec(a.m, a.s - b.s)
    ELSE LET m == a.m * Pow10(b.s - a.s)
         IN IF Abs(m) > MantissaMax THEN Panic ELSE Dec(m, 0)

\* Decimal::floor and Decimal::ceil: the integers below and above.
DecimalFloor(a) == Dec(a.m \div Pow10(a.s), 0)

DecimalCeil(a) == Dec(-((-a.m) \div Pow10(a.s)), 0)

\* math_utils::floor_to_decimals
floor_to_decimals(value, decimals) ==
    IF decimals >= 0
    THEN LET multiplier == DecimalNew(1, decimals)
             v == DecimalDiv(value, multiplier)
         IN IF ~multiplier.ok \/ ~v.ok THEN Panic
            ELSE IF v.m > 0 THEN DecimalMul(DecimalFloor(v), multiplier)
            ELSE DecimalMul(DecimalCeil(v), multiplier)
    ELSE LET multiplier == DecimalNew(1, -decimals)
             v == DecimalMul(value, multiplier)
         IN IF ~multiplier.ok \/ ~v.ok THEN Panic
            ELSE IF v.m > 0 THEN DecimalDiv(DecimalFloor(v), multiplier)
            ELSE DecimalDiv(DecimalCeil(v), multiplier)

\* math_utils::ceil_to_decimals
ceil_to_decimals(value, decimals) ==
    IF decimals >= 0
    THEN LET multiplier == DecimalNew(1, decimals)
             v == DecimalDiv(value, multiplier)
         IN IF ~multiplier.ok \/ ~v.ok THEN Panic
            ELSE IF v.m > 0 THEN DecimalMul(DecimalCeil(v), multiplier)
            ELSE DecimalMul(DecimalFloor(v), multiplier)
    ELSE LET multiplier == DecimalNew(1, -decimals)
             v == DecimalMul(value, multiplier)
         IN IF ~multiplier.ok \/ ~v.ok THEN Panic
            ELSE IF v.m > 0 THEN DecimalDiv(DecimalCeil(v), multiplier)
            ELSE DecimalDiv(DecimalFloor(v), multiplier)

\* Decimal::round: the nearest integer, a midpoint going to the even one.
DecimalRound(a) == Dec(RoundHalfEven(a.m, Pow10(a.s)), 0)

\* math_utils::round_to_decimals
round_to_decimals(value, decimals) ==
    IF decimals >= 0
    THEN LET multiplier == DecimalNew(1, decimals)
             v == DecimalDiv(value, multiplier)
         IN IF ~multiplier.ok \/ ~v.ok THEN Panic
            ELSE DecimalMul(DecimalRound(v), multiplier)
    ELSE LET multiplier == DecimalNew(1, -decimals)
             v == DecimalMul(value, multiplier)
         IN IF ~multiplier.ok \/ ~v.ok THEN Panic
            ELSE DecimalDiv(DecimalRound(v), multiplier)

\* The values and the decimals the functions are called with: every
\* Decimal of the type, and decimals up to one past the maximum scale on
\* either side.
Decimals == [ok : {TRUE}, m : -MantissaMax..MantissaMax, s : 0..MaxScale]

DecimalsRange == -(MaxScale + 1)..(MaxScale + 1)

NoArg == [value |-> Dec(0, 0), decimals |-> 0]

NoRes ==
    [called |-> FALSE, floor |-> Dec(0, 0), ceil |-> Dec(0, 0),
     round |-> Dec(0, 0)]

\* LuaInstance::new returned Ok(lua): the context of the attempt is alive
\* and its atexit handlers have not run.
NewLua == [live |-> TRUE, atexit |-> 0]

\* No attempt has constructed a context yet.
NoLua == [live |-> FALSE, atexit |-> 0]

\* impl Drop for LuaInstance: lua goes out of scope, drop runs atexit().
\* The runs are counted up to two.
Dropped(l) == [live |-> FALSE, atexit |-> IF l.atexit < 2 THEN l.atexit + 1 ELSE 2]

NoSub == [t |-> NoTarget, entry |-> "none", period |-> 0]

\* The program after main has started its threads.
ProgramInit ==
    /\ pc = [s \in Scripts |-> "Top"]
    /\ outcome = [s \in Scripts |-> "none"]
    /\ slept = [s \in Scripts |-> FALSE]
    /\ active = [s \in Scripts |-> 0]
    /\ kill_txs = [s \in Scripts |-> <<>>]
    /\ queue = [s \in Scripts |-> <<>>]
    /\ sub = [s \in Scripts |-> NoSub]
    /\ lock = "free"
    /\ fetchers = {}
    /\ pollers = [f \in Fingerprints |-> 0]
    /\ periods = [f \in Fingerprints |-> 0]
    /\ poisoned = {}
    /\ lua = [s \in Scripts |-> NoLua]
    /\ requested = {}
    /\ bridges = [b \in BridgeIds |-> FreeBridge]
    /\ lateCall = [s \in Scripts |-> 0]
    /\ TERMINATE = FALSE
    /\ host = "running"
    /\ joined = 0
    /\ notified = FALSE
    /\ nones = [s \in Scripts |-> 0]
    /\ fpc = "Timer"
    /\ conv = "unknown"
    /\ resp = [status |-> 0, url |-> ""]
    /\ newest = [url |-> "", status |-> 0, error |-> FALSE]
    /\ ticks = 0
    /\ produced = 0
    /\ last_data = 0
    /\ killed = FALSE
    /\ polled = FALSE
    /\ cpc = [c \in Consumers |-> "idle"]
    /\ got = [c \in Consumers |-> <<>>]
    /\ owed = {}

\* local_address_index is a usize: IndexBits bits wide.
IndexBits == 2
IndexMod == 2 ^ IndexBits

\* The addresses in GRASSHOPPER_LOCAL_ADDRS: none when the variable is not
\* set, else MaxAddrs at most.
MaxAddrs == 3

Routes == [primary_only : BOOLEAN, addrs : 0..MaxAddrs]
NoRoute == [primary_only |-> FALSE, addrs |-> 0]

\* clients: one default client with primary_only or with no list, else one
\* client per address.
Clients(r) == IF r.primary_only \/ r.addrs = 0 THEN 1 ELSE r.addrs

\* The task as it is spawned: no list of addresses, the counter at 0.
TaskInit ==
    /\ route = NoRoute
    /\ local_address_index = 0

Init ==
    /\ ProgramInit
    /\ TaskInit
    /\ arg = NoArg
    /\ res = NoRes

Running == host = "running"

Min(a, b) == IF a < b THEN a ELSE b

\* Dropping a Session (its thread ended): the cancel handles are dropped,
\* which resolves the bridges' cancel receivers, and the queue is gone.
DropSession(s) ==
    /\ bridges' = [b \in BridgeIds |->
                     IF bridges[b].st # "free" /\ bridges[b].sess = s
                     THEN [bridges[b] EXCEPT !.cancelled = TRUE, !.old = TRUE]
                     ELSE bridges[b]]
    /\ kill_txs' = [kill_txs EXCEPT ![s] = <<>>]
    /\ queue' = [queue EXCEPT ![s] = <<>>]

SessionGone(s) == pc[s] \in {"Stopped", "Panicked"}

\* -------------------------------------------------- Runtime::run, the loop

\* The loop top without the TERMINATE check.
LoopTopIgnoresSignal(s) ==
    /\ Running
    /\ UNCHANGED lua
    /\ UNCHANGED <<shutdownVars, fetcherVars, consumerVars, mathVars>>
    /\ pc[s] = "Top"
    /\ pc' = [pc EXCEPT ![s] = "New"]
    /\ UNCHANGED <<bridges, kill_txs, queue>>
    /\ UNCHANGED <<outcome, slept, active, sub, lateCall>>
    /\ UNCHANGED <<registryVars, processVars>>

\* if TERMINATE.load(Relaxed) { break; }
LoopTop(s) ==
    /\ Running
    /\ UNCHANGED lua
    /\ UNCHANGED <<shutdownVars, fetcherVars, consumerVars, mathVars>>
    /\ pc[s] = "Top"
    /\ IF TERMINATE
       THEN /\ pc' = [pc EXCEPT ![s] = "Stopped"]
            /\ DropSession(s)
       ELSE /\ pc' = [pc EXCEPT ![s] = "New"]
            /\ UNCHANGED <<bridges, kill_txs, queue>>
    /\ UNCHANGED <<outcome, slept, active, sub, lateCall>>
    /\ UNCHANGED <<registryVars, processVars>>

\* LuaInstance::new and the match on its result.
NewInstance(s, r) ==
    /\ Running
    /\ lua' = IF r = "ok" THEN [lua EXCEPT ![s] = NewLua] ELSE lua
    /\ UNCHANGED <<shutdownVars, fetcherVars, consumerVars, mathVars>>
    /\ pc[s] = "New"
    /\ pc' = [pc EXCEPT ![s] = CASE r = "ok" -> "Kill"
                                 [] r = "lua_error" -> "NewSleep"
                                 [] OTHER -> "FatalSleep"]
    /\ slept' = [slept EXCEPT ![s] = IF r = "ok" THEN slept[s] ELSE FALSE]
    /\ UNCHANGED <<outcome, active, sessionVars, bridges>>
    /\ UNCHANGED <<registryVars, processVars>>

\* A sleep after an mlua::Error of LuaInstance::new that ends the loop.
NewSleepBreaks(s) ==
    /\ Running
    /\ UNCHANGED lua
    /\ UNCHANGED <<shutdownVars, fetcherVars, consumerVars, mathVars>>
    /\ pc[s] = "NewSleep"
    /\ pc' = [pc EXCEPT ![s] = "Stopped"]
    /\ DropSession(s)
    /\ UNCHANGED <<outcome, slept, active, sub, lateCall>>
    /\ UNCHANGED <<registryVars, processVars>>

\* LuaInstance::new returned an mlua::Error: the error is logged,
\* thread::sleep(1 s) has elapsed, continue.
NewSleepElapsed(s) ==
    /\ Running
    /\ UNCHANGED lua
    /\ UNCHANGED <<shutdownVars, fetcherVars, consumerVars, mathVars>>
    /\ pc[s] = "NewSleep"
    /\ pc' = [pc EXCEPT ![s] = "Top"]
    /\ slept' = [slept EXCEPT ![s] = TRUE]
    /\ UNCHANGED <<outcome, active, sessionVars, bridges>>
    /\ UNCHANGED <<registryVars, processVars>>

\* thread::sleep(1 s); panic!("cannot create lua instance")
FatalPanic(s) ==
    /\ Running
    /\ UNCHANGED lua
    /\ UNCHANGED <<shutdownVars, fetcherVars, consumerVars, mathVars>>
    /\ pc[s] = "FatalSleep"
    /\ pc' = [pc EXCEPT ![s] = "Panicked"]
    /\ DropSession(s)
    /\ UNCHANGED <<outcome, slept, active, sub, lateCall>>
    /\ UNCHANGED <<registryVars, processVars>>

\* The Session's list holds the handle of a bridge that has ended by
\* itself: the receiver of that oneshot is gone and send returns Err.
RecordsStopped(s) ==
    \E i \in 1..Len(kill_txs[s]) : bridges[kill_txs[s][i]].st = "stopped"

\* ktx.send(()).expect("cannot kill fetcher bridge task") on the handle of
\* a bridge that has ended: the supervisor thread panics, outside
\* catch_unwind.  The unwinding drops the rest of the drained handles and
\* the Runtime with its Session.
InvalidateAllPanics(s) ==
    /\ Running
    /\ lua' = [lua EXCEPT ![s] = Dropped(@)]
    /\ UNCHANGED <<shutdownVars, fetcherVars, consumerVars, mathVars>>
    /\ pc[s] = "Kill"
    /\ RecordsStopped(s)
    /\ pc' = [pc EXCEPT ![s] = "Panicked"]
    /\ bridges' = [b \in BridgeIds |->
                     IF bridges[b].st = "free" \/ bridges[b].sess # s
                     THEN bridges[b]
                     ELSE IF bridges[b].st = "stopped" THEN FreeBridge
                     ELSE [bridges[b] EXCEPT !.cancelled = TRUE,
                                             !.old = TRUE]]
    /\ kill_txs' = [kill_txs EXCEPT ![s] = <<>>]
    /\ queue' = [queue EXCEPT ![s] = <<>>]
    /\ UNCHANGED <<outcome, slept, active, sub, lateCall>>
    /\ UNCHANGED <<registryVars, processVars>>

\* The loop going on to the script body without kill_all_fetchers.
InvalidateAllSkipped(s) ==
    /\ Running
    /\ UNCHANGED lua
    /\ UNCHANGED <<shutdownVars, fetcherVars, consumerVars, mathVars>>
    /\ pc[s] = "Kill"
    /\ outcome' = [outcome EXCEPT ![s] = "none"]
    /\ slept' = [slept EXCEPT ![s] = FALSE]
    /\ active' = [active EXCEPT ![s] = active[s] + 1]
    /\ pc' = [pc EXCEPT ![s] = "Run"]
    /\ UNCHANGED <<sessionVars, bridges, registryVars, processVars>>

\* kill_all_fetchers that empties the list but leaves the bridges running
\* (the handles are leaked instead of fired).
InvalidateAllLeaksHandles(s) ==
    /\ Running
    /\ UNCHANGED lua
    /\ UNCHANGED <<shutdownVars, fetcherVars, consumerVars, mathVars>>
    /\ pc[s] = "Kill"
    /\ bridges' = [b \in BridgeIds |->
                     IF \E i \in 1..Len(kill_txs[s]) : kill_txs[s][i] = b
                     THEN [bridges[b] EXCEPT !.old = TRUE]
                     ELSE bridges[b]]
    /\ kill_txs' = [kill_txs EXCEPT ![s] = <<>>]
    /\ queue' = [queue EXCEPT
                   ![s] = [i \in 1..Len(queue[s]) |->
                             IF queue[s][i] = "none" THEN "none"
                             ELSE "leftover"]]
    /\ lateCall' = [lateCall EXCEPT ![s] = 0]
    /\ outcome' = [outcome EXCEPT ![s] = "none"]
    /\ slept' = [slept EXCEPT ![s] = FALSE]
    /\ active' = [active EXCEPT ![s] = active[s] + 1]
    /\ pc' = [pc EXCEPT ![s] = "Run"]
    /\ UNCHANGED <<sub, registryVars, processVars>>

\* kill_all_fetchers that cancels the bridges of every Session.
InvalidateAllEverySession(s) ==
    /\ Running
    /\ UNCHANGED lua
    /\ UNCHANGED <<shutdownVars, fetcherVars, consumerVars, mathVars>>
    /\ pc[s] = "Kill"
    /\ bridges' = [b \in BridgeIds |->
                     IF bridges[b].st # "free"
                     THEN [bridges[b] EXCEPT !.cancelled = TRUE, !.old = TRUE]
                     ELSE bridges[b]]
    /\ kill_txs' = [kill_txs EXCEPT ![s] = <<>>]
    /\ queue' = [queue EXCEPT
                   ![s] = [i \in 1..Len(queue[s]) |->
                             IF queue[s][i] = "none" THEN "none"
                             ELSE "leftover"]]
    /\ lateCall' = [lateCall EXCEPT ![s] = 0]
    /\ outcome' = [outcome EXCEPT ![s] = "none"]
    /\ slept' = [slept EXCEPT ![s] = FALSE]
    /\ active' = [active EXCEPT ![s] = active[s] + 1]
    /\ pc' = [pc EXCEPT ![s] = "Run"]
    /\ UNCHANGED <<sub, registryVars, processVars>>

\* self.session.lock().expect("lock poisoned") on a Session mutex that a
\* panic has poisoned: the supervisor thread panics, outside catch_unwind,
\* and the Runtime is dropped with its Session.
SessionLockPoisoned(s) ==
    /\ Running
    /\ lua' = [lua EXCEPT ![s] = Dropped(@)]
    /\ UNCHANGED <<shutdownVars, fetcherVars, consumerVars, mathVars>>
    /\ pc[s] = "Kill"
    /\ s \in poisoned
    /\ pc' = [pc EXCEPT ![s] = "Panicked"]
    /\ DropSession(s)
    /\ UNCHANGED <<outcome, slept, active, sub, lateCall>>
    /\ UNCHANGED <<registryVars, processVars>>

\* Session::kill_all_fetchers, called by the loop right before the script
\* body: every recorded cancel handle is fired and the list is drained.
\* From here on the messages already queued are leftovers of an earlier
\* attempt.
InvalidateAll(s) ==
    /\ Running
    /\ UNCHANGED lua
    /\ UNCHANGED <<shutdownVars, fetcherVars, consumerVars, mathVars>>
    /\ pc[s] = "Kill"
    /\ s \notin poisoned
    /\ ~RecordsStopped(s)
    /\ bridges' = [b \in BridgeIds |->
                     IF \E i \in 1..Len(kill_txs[s]) : kill_txs[s][i] = b
                     THEN [bridges[b] EXCEPT !.cancelled = TRUE, !.old = TRUE]
                     ELSE bridges[b]]
    /\ kill_txs' = [kill_txs EXCEPT ![s] = <<>>]
    /\ queue' = [queue EXCEPT
                   ![s] = [i \in 1..Len(queue[s]) |->
                             IF queue[s][i] = "none" THEN "none"
                             ELSE "leftover"]]
    /\ lateCall' = [lateCall EXCEPT ![s] = 0]
    /\ outcome' = [outcome EXCEPT ![s] = "none"]
    /\ slept' = [slept EXCEPT ![s] = FALSE]
    /\ active' = [active EXCEPT ![s] = active[s] + 1]
    /\ pc' = [pc EXCEPT ![s] = "Run"]
    /\ UNCHANGED <<sub, registryVars, processVars>>

\* A normal return treated like a failure: sleep and run again.
ScriptReturnRetries(s) ==
    /\ Running
    /\ lua' = [lua EXCEPT ![s] = Dropped(@)]
    /\ UNCHANGED <<shutdownVars, fetcherVars, consumerVars, mathVars>>
    /\ pc[s] = "Run"
    /\ outcome' = [outcome EXCEPT ![s] = "ok"]
    /\ active' = [active EXCEPT ![s] = active[s] - 1]
    /\ pc' = [pc EXCEPT ![s] = "Backoff"]
    /\ slept' = [slept EXCEPT ![s] = FALSE]
    /\ UNCHANGED <<sessionVars, bridges>>
    /\ UNCHANGED <<registryVars, processVars>>

\* Ok(Ok(())): the script returned; break.
ScriptReturn(s) ==
    /\ Running
    /\ lua' = [lua EXCEPT ![s] = Dropped(@)]
    /\ UNCHANGED <<shutdownVars, fetcherVars, consumerVars, mathVars>>
    /\ pc[s] = "Run"
    /\ outcome' = [outcome EXCEPT ![s] = "ok"]
    /\ active' = [active EXCEPT ![s] = active[s] - 1]
    /\ pc' = [pc EXCEPT ![s] = "Stopped"]
    /\ DropSession(s)
    /\ UNCHANGED <<slept, sub, lateCall>>
    /\ UNCHANGED <<registryVars, processVars>>

\* An error return that ends the loop.
ScriptErrorBreaks(s) ==
    /\ Running
    /\ lua' = [lua EXCEPT ![s] = Dropped(@)]
    /\ UNCHANGED <<shutdownVars, fetcherVars, consumerVars, mathVars>>
    /\ pc[s] = "Run"
    /\ outcome' = [outcome EXCEPT ![s] = "err"]
    /\ active' = [active EXCEPT ![s] = active[s] - 1]
    /\ pc' = [pc EXCEPT ![s] = "Stopped"]
    /\ DropSession(s)
    /\ UNCHANGED <<slept, sub, lateCall>>
    /\ UNCHANGED <<registryVars, processVars>>

\* An error return that continues the loop without the sleep.
ScriptErrorNoBackoff(s) ==
    /\ Running
    /\ lua' = [lua EXCEPT ![s] = Dropped(@)]
    /\ UNCHANGED <<shutdownVars, fetcherVars, consumerVars, mathVars>>
    /\ pc[s] = "Run"
    /\ outcome' = [outcome EXCEPT ![s] = "err"]
    /\ active' = [active EXCEPT ![s] = active[s] - 1]
    /\ pc' = [pc EXCEPT ![s] = "Top"]
    /\ slept' = [slept EXCEPT ![s] = FALSE]
    /\ UNCHANGED <<sessionVars, bridges>>
    /\ UNCHANGED <<registryVars, processVars>>

\* An error return in a loop without the inner block: lua lives to the end
\* of the iteration, across the sleep.
ScriptErrorKeepsLua(s) ==
    /\ Running
    /\ UNCHANGED lua
    /\ UNCHANGED <<shutdownVars, fetcherVars, consumerVars, mathVars>>
    /\ pc[s] = "Run"
    /\ outcome' = [outcome EXCEPT ![s] = "err"]
    /\ active' = [active EXCEPT ![s] = active[s] - 1]
    /\ pc' = [pc EXCEPT ![s] = "Backoff"]
    /\ slept' = [slept EXCEPT ![s] = FALSE]
    /\ UNCHANGED <<sessionVars, bridges>>
    /\ UNCHANGED <<registryVars, processVars>>

\* Ok(Err(err)): the script returned an error; fall through to the sleep.
ScriptError(s) ==
    /\ Running
    /\ lua' = [lua EXCEPT ![s] = Dropped(@)]
    /\ UNCHANGED <<shutdownVars, fetcherVars, consumerVars, mathVars>>
    /\ pc[s] = "Run"
    /\ outcome' = [outcome EXCEPT ![s] = "err"]
    /\ active' = [active EXCEPT ![s] = active[s] - 1]
    /\ pc' = [pc EXCEPT ![s] = "Backoff"]
    /\ slept' = [slept EXCEPT ![s] = FALSE]
    /\ UNCHANGED <<sessionVars, bridges>>
    /\ UNCHANGED <<registryVars, processVars>>

\* The script panicked without catch_unwind around it: the thread dies.
ScriptFaultUncaught(s) ==
    /\ Running
    /\ lua' = [lua EXCEPT ![s] = Dropped(@)]
    /\ UNCHANGED <<shutdownVars, fetcherVars, consumerVars, mathVars>>
    /\ pc[s] = "Run"
    /\ outcome' = [outcome EXCEPT ![s] = "fault"]
    /\ active' = [active EXCEPT ![s] = active[s] - 1]
    /\ pc' = [pc EXCEPT ![s] = "Panicked"]
    /\ DropSession(s)
    /\ UNCHANGED <<slept, sub, lateCall>>
    /\ UNCHANGED <<registryVars, processVars>>

\* Err(_) of catch_unwind: the script panicked; fall through to the sleep.
ScriptFault(s) ==
    /\ Running
    /\ lua' = [lua EXCEPT ![s] = Dropped(@)]
    /\ UNCHANGED <<shutdownVars, fetcherVars, consumerVars, mathVars>>
    /\ pc[s] = "Run"
    /\ outcome' = [outcome EXCEPT ![s] = "fault"]
    /\ active' = [active EXCEPT ![s] = active[s] - 1]
    /\ pc' = [pc EXCEPT ![s] = "Backoff"]
    /\ slept' = [slept EXCEPT ![s] = FALSE]
    /\ UNCHANGED <<sessionVars, bridges>>
    /\ UNCHANGED <<registryVars, processVars>>

\* thread::sleep(Duration::from_secs(1)) has elapsed; back to the loop top.
BackoffElapsed(s) ==
    /\ Running
    /\ UNCHANGED lua
    /\ UNCHANGED <<shutdownVars, fetcherVars, consumerVars, mathVars>>
    /\ pc[s] = "Backoff"
    /\ pc' = [pc EXCEPT ![s] = "Top"]
    /\ slept' = [slept EXCEPT ![s] = TRUE]
    /\ UNCHANGED <<outcome, active, sessionVars, bridges>>
    /\ UNCHANGED <<registryVars, processVars>>

\* ------------------------------------------------- Session, from the script

FreeSlots == {b \in BridgeIds : bridges[b].st = "free"}

\* fetchers.lock() that never waits: no mutual exclusion.
LockNeverWaits == TRUE

\* The lock is free: fetchers.lock() returns at once.
LockAvailable == lock = "free"

\* Session::subscribe, first half: take the fetchers lock and look the
\* payload up (fetchers.entry(payload)).
SubscribeEntryFor(s, t, p) ==
    /\ Running
    /\ UNCHANGED lua
    /\ UNCHANGED <<shutdownVars, fetcherVars, consumerVars, mathVars>>
    /\ pc[s] = "Run"
    /\ LockAvailable
    /\ "fetchers" \notin poisoned
    /\ FreeSlots # {}
    /\ lock' = s
    /\ sub' = [sub EXCEPT
                 ![s] = [t |-> t, period |-> p,
                         entry |-> IF PayloadKey(t) \in fetchers
                                   THEN "occupied" ELSE "vacant"]]
    /\ pc' = [pc EXCEPT ![s] = "Sub"]
    /\ UNCHANGED <<outcome, slept, active, kill_txs, queue, lateCall,
                   bridges>>
    /\ UNCHANGED <<fetchers, pollers, requested, periods, poisoned,
                   processVars>>

\* The periods of the subscribe calls (period_ms): 1..MaxPeriod.
MaxPeriod == 2

\* A subscribe call with the period the scripts commonly use.
DefaultPeriod == 1

SubscribeEntry(s, t) == SubscribeEntryFor(s, t, DefaultPeriod)

\* Session::subscribe that parses the url first and returns an error if it
\* is malformed.
SubscribeAttachValidates(s) ==
    IF sub[s].t.url = "::"
    THEN /\ Running
         /\ UNCHANGED lua
         /\ UNCHANGED <<shutdownVars, fetcherVars, consumerVars, mathVars>>
         /\ pc[s] = "Sub"
         /\ lock' = "free"
         /\ pc' = [pc EXCEPT ![s] = "SubErr"]
         /\ UNCHANGED <<outcome, slept, active, sessionVars, bridges>>
         /\ UNCHANGED <<fetchers, pollers, requested, periods, poisoned,
                   processVars>>
    ELSE
         /\ Running
         /\ UNCHANGED lua
    /\ UNCHANGED lua
         /\ UNCHANGED <<shutdownVars, fetcherVars, consumerVars, mathVars>>
         /\ pc[s] = "Sub"
         /\ FreeSlots # {}
         /\ LET t == sub[s].t
                b == CHOOSE x \in FreeSlots : \A y \in FreeSlots : x <= y
            IN /\ fetchers' = fetchers \cup {PayloadKey(t)}
               /\ pollers' = IF sub[s].entry = "vacant"
                             THEN [pollers EXCEPT ![Fingerprint(t)] = @ + 1]
                             ELSE pollers
               /\ periods' = IF sub[s].entry = "vacant"
                             THEN [periods EXCEPT ![Fingerprint(t)] = sub[s].period]
                             ELSE periods
               /\ bridges' = [bridges EXCEPT
                                ![b] = [st |-> "wait", sess |-> s,
                                        t |-> t, inbox |-> 0,
                                        cancelled |-> FALSE, old |-> FALSE,
                                        late |-> 0,
                                   period |-> sub[s].period]]
               /\ kill_txs' = [kill_txs EXCEPT ![s] = Append(@, b)]
               /\ requested' = requested \cup {Fingerprint(t)}
               /\ UNCHANGED poisoned
         /\ lock' = "free"
         /\ sub' = [sub EXCEPT ![s] = NoSub]
         /\ pc' = [pc EXCEPT ![s] = "Run"]
         /\ UNCHANGED <<outcome, slept, active, queue, lateCall>>
         /\ UNCHANGED processVars

\* Session::subscribe that keeps the guard of the fetchers lock in the
\* Session instead of dropping it on return.
SubscribeAttachKeepsLock(s) ==
    /\ Running
    /\ UNCHANGED lua
    /\ UNCHANGED <<shutdownVars, fetcherVars, consumerVars, mathVars>>
    /\ pc[s] = "Sub"
    /\ FreeSlots # {}
    /\ LET t == sub[s].t
           b == CHOOSE x \in FreeSlots : \A y \in FreeSlots : x <= y
       IN /\ fetchers' = fetchers \cup {PayloadKey(t)}
          /\ pollers' = IF sub[s].entry = "vacant"
                        THEN [pollers EXCEPT ![Fingerprint(t)] = @ + 1]
                        ELSE pollers
          /\ periods' = IF sub[s].entry = "vacant"
                        THEN [periods EXCEPT ![Fingerprint(t)] = sub[s].period]
                        ELSE periods
          /\ bridges' = [bridges EXCEPT
                           ![b] = [st |-> "wait", sess |-> s,
                                   t |-> t, inbox |-> 0,
                                   cancelled |-> FALSE, old |-> FALSE,
                                   late |-> 0,
                                   period |-> sub[s].period]]
          /\ kill_txs' = [kill_txs EXCEPT ![s] = Append(@, b)]
          /\ requested' = requested \cup {Fingerprint(t)}
          /\ UNCHANGED poisoned
    /\ UNCHANGED lock
    /\ sub' = [sub EXCEPT ![s] = NoSub]
    /\ pc' = [pc EXCEPT ![s] = "Run"]
    /\ UNCHANGED <<outcome, slept, active, queue, lateCall>>
    /\ UNCHANGED processVars

\* Session::subscribe that sets the interval of a Fetcher it finds in the
\* registry to the period of the call.
SubscribeAttachRetimes(s) ==
    /\ Running
    /\ UNCHANGED lua
    /\ UNCHANGED <<shutdownVars, fetcherVars, consumerVars, mathVars>>
    /\ pc[s] = "Sub"
    /\ FreeSlots # {}
    /\ LET t == sub[s].t
           b == CHOOSE x \in FreeSlots : \A y \in FreeSlots : x <= y
       IN /\ fetchers' = fetchers \cup {PayloadKey(t)}
          /\ pollers' = IF sub[s].entry = "vacant"
                        THEN [pollers EXCEPT ![Fingerprint(t)] = @ + 1]
                        ELSE pollers
          /\ periods' = [periods EXCEPT ![Fingerprint(t)] = sub[s].period]
          /\ bridges' = [bridges EXCEPT
                           ![b] = [st |-> "wait", sess |-> s,
                                   t |-> t, inbox |-> 0,
                                   cancelled |-> FALSE, old |-> FALSE,
                                   late |-> 0,
                                   period |-> sub[s].period]]
          /\ kill_txs' = [kill_txs EXCEPT ![s] = Append(@, b)]
          /\ requested' = requested \cup {Fingerprint(t)}
          /\ UNCHANGED poisoned
    /\ lock' = "free"
    /\ sub' = [sub EXCEPT ![s] = NoSub]
    /\ pc' = [pc EXCEPT ![s] = "Run"]
    /\ UNCHANGED <<outcome, slept, active, queue, lateCall>>
    /\ UNCHANGED processVars

\* Session::subscribe, second half: a vacant entry gets a new Fetcher (its
\* task is spawned), the Session is attached to the Fetcher through a new
\* bridge, the bridge's cancel handle is pushed, and the lock is released
\* on return.
SubscribeAttach(s) ==
    /\ Running
    /\ UNCHANGED lua
    /\ UNCHANGED <<shutdownVars, fetcherVars, consumerVars, mathVars>>
    /\ pc[s] = "Sub"
    /\ FreeSlots # {}
    /\ LET t == sub[s].t
           b == CHOOSE x \in FreeSlots : \A y \in FreeSlots : x <= y
       IN /\ fetchers' = fetchers \cup {PayloadKey(t)}
          /\ pollers' = IF sub[s].entry = "vacant"
                        THEN [pollers EXCEPT ![Fingerprint(t)] = @ + 1]
                        ELSE pollers
          /\ periods' = IF sub[s].entry = "vacant"
                        THEN [periods EXCEPT ![Fingerprint(t)] = sub[s].period]
                        ELSE periods
          /\ bridges' = [bridges EXCEPT
                           ![b] = [st |-> "wait", sess |-> s,
                                   t |-> t, inbox |-> 0,
                                   cancelled |-> FALSE, old |-> FALSE,
                                   late |-> 0,
                                   period |-> sub[s].period]]
          /\ kill_txs' = [kill_txs EXCEPT ![s] = Append(@, b)]
          /\ requested' = requested \cup {Fingerprint(t)}
          /\ UNCHANGED poisoned
    /\ lock' = "free"
    /\ sub' = [sub EXCEPT ![s] = NoSub]
    /\ pc' = [pc EXCEPT ![s] = "Run"]
    /\ UNCHANGED <<outcome, slept, active, queue, lateCall>>
    /\ UNCHANGED processVars

\* gh._subscribe with a value that lua.from_value rejects: the `?` returns
\* the error before the Session is locked.
SubscribeRejected(s, v) ==
    /\ Running
    /\ UNCHANGED lua
    /\ UNCHANGED <<shutdownVars, fetcherVars, consumerVars, mathVars>>
    /\ pc[s] = "Run"
    /\ ~Deserializes(v)
    /\ sub' = [sub EXCEPT ![s] = [t |-> v, entry |-> "none", period |-> 0]]
    /\ pc' = [pc EXCEPT ![s] = "SubErr"]
    /\ UNCHANGED <<outcome, slept, active, kill_txs, queue, lateCall,
                   bridges>>
    /\ UNCHANGED <<registryVars, processVars>>

\* The error of gh._subscribe is back in the script, which goes on.
SubscribeErrorReturns(s) ==
    /\ Running
    /\ UNCHANGED lua
    /\ UNCHANGED <<shutdownVars, fetcherVars, consumerVars, mathVars>>
    /\ pc[s] = "SubErr"
    /\ sub' = [sub EXCEPT ![s] = NoSub]
    /\ pc' = [pc EXCEPT ![s] = "Run"]
    /\ UNCHANGED <<outcome, slept, active, kill_txs, queue, lateCall,
                   bridges>>
    /\ UNCHANGED <<registryVars, processVars>>

\* A panic inside Session::subscribe, between fetchers.lock() and the
\* return: the unwinding drops the guard of the fetchers mutex and, in
\* gh._subscribe, the guard of the Session mutex, and both mutexes are
\* poisoned.  mlua carries the panic to the caller of the script, where
\* catch_unwind returns Err(_).
SubscribeFault(s) ==
    /\ Running
    /\ lua' = [lua EXCEPT ![s] = Dropped(@)]
    /\ UNCHANGED <<shutdownVars, fetcherVars, consumerVars, mathVars>>
    /\ pc[s] = "Sub"
    /\ lock' = "free"
    /\ poisoned' = poisoned \cup {"fetchers", s}
    /\ sub' = [sub EXCEPT ![s] = NoSub]
    /\ outcome' = [outcome EXCEPT ![s] = "fault"]
    /\ active' = [active EXCEPT ![s] = active[s] - 1]
    /\ pc' = [pc EXCEPT ![s] = "Backoff"]
    /\ slept' = [slept EXCEPT ![s] = FALSE]
    /\ UNCHANGED <<kill_txs, queue, lateCall, bridges>>
    /\ UNCHANGED <<fetchers, pollers, requested, periods, processVars>>

\* fetchers.lock().expect("fetchers lock poisoned") on the poisoned
\* registry: Session::subscribe panics with the Session mutex held, which
\* is poisoned in turn.
SubscribePoisoned(s) ==
    /\ Running
    /\ lua' = [lua EXCEPT ![s] = Dropped(@)]
    /\ UNCHANGED <<shutdownVars, fetcherVars, consumerVars, mathVars>>
    /\ pc[s] = "Run"
    /\ LockAvailable
    /\ "fetchers" \in poisoned
    /\ poisoned' = poisoned \cup {s}
    /\ outcome' = [outcome EXCEPT ![s] = "fault"]
    /\ active' = [active EXCEPT ![s] = active[s] - 1]
    /\ pc' = [pc EXCEPT ![s] = "Backoff"]
    /\ slept' = [slept EXCEPT ![s] = FALSE]
    /\ UNCHANGED <<sessionVars, bridges>>
    /\ UNCHANGED <<lock, fetchers, pollers, requested, periods, processVars>>

\* A panic inside Session::next, in gh._next: the unwinding drops the guard
\* of the Session mutex, which is poisoned.
NextFault(s) ==
    /\ Running
    /\ lua' = [lua EXCEPT ![s] = Dropped(@)]
    /\ UNCHANGED <<shutdownVars, fetcherVars, consumerVars, mathVars>>
    /\ pc[s] = "Recv"
    /\ poisoned' = poisoned \cup {s}
    /\ outcome' = [outcome EXCEPT ![s] = "fault"]
    /\ active' = [active EXCEPT ![s] = active[s] - 1]
    /\ pc' = [pc EXCEPT ![s] = "Backoff"]
    /\ slept' = [slept EXCEPT ![s] = FALSE]
    /\ UNCHANGED <<sessionVars, bridges>>
    /\ UNCHANGED <<lock, fetchers, pollers, requested, periods, processVars>>

\* gh._next: Nil at once when TERMINATE is set, else Session::next, which
\* blocks until the queue yields a message.
Next(s) ==
    /\ Running
    /\ UNCHANGED lua
    /\ UNCHANGED <<notified, fetcherVars, consumerVars, mathVars>>
    /\ pc[s] = "Run"
    /\ IF TERMINATE
       THEN /\ UNCHANGED queue
            /\ nones' = [nones EXCEPT ![s] = Min(@ + 1, 2)]
       ELSE /\ queue[s] # <<>>
            /\ queue' = [queue EXCEPT ![s] = Tail(@)]
            /\ nones' = IF Head(queue[s]) = "none"
                        THEN [nones EXCEPT ![s] = Min(@ + 1, 2)]
                        ELSE nones
    /\ UNCHANGED <<supervisorVars, kill_txs, sub, lateCall, bridges>>
    /\ UNCHANGED <<registryVars, processVars>>

\* gh._next with TERMINATE clear and an empty queue: the script thread
\* suspends in blocking_recv.
NextBlock(s) ==
    /\ Running
    /\ UNCHANGED lua
    /\ UNCHANGED <<shutdownVars, fetcherVars, consumerVars, mathVars>>
    /\ pc[s] = "Run"
    /\ ~TERMINATE
    /\ queue[s] = <<>>
    /\ pc' = [pc EXCEPT ![s] = "Recv"]
    /\ UNCHANGED <<outcome, slept, active, sessionVars, bridges>>
    /\ UNCHANGED <<registryVars, processVars>>

\* blocking_recv resumes with the message that arrived: gh._next returns
\* it, Nil for the sentinel.
NextWake(s) ==
    /\ Running
    /\ UNCHANGED lua
    /\ UNCHANGED <<notified, fetcherVars, consumerVars, mathVars>>
    /\ pc[s] = "Recv"
    /\ queue[s] # <<>>
    /\ queue' = [queue EXCEPT ![s] = Tail(@)]
    /\ nones' = IF Head(queue[s]) = "none"
                THEN [nones EXCEPT ![s] = Min(@ + 1, 2)]
                ELSE nones
    /\ pc' = [pc EXCEPT ![s] = "Run"]
    /\ UNCHANGED <<outcome, slept, active, kill_txs, sub, lateCall, bridges>>
    /\ UNCHANGED <<registryVars, processVars>>

\* ------------------------------------------------------ Fetchers and bridges

\* One tick of the Fetcher task of key k that ends in a result: the result
\* is published to every receiver attached to that Fetcher.  A receiver that
\* already holds FanoutCap unread results loses the oldest.
Publish(k) ==
    /\ Running
    /\ UNCHANGED lua
    /\ UNCHANGED <<shutdownVars, fetcherVars, consumerVars, mathVars>>
    /\ k \in fetchers
    /\ bridges' = [b \in BridgeIds |->
                     IF bridges[b].st # "free" /\ PayloadKey(bridges[b].t) = k
                     THEN [bridges[b] EXCEPT
                             !.inbox = Min(@ + 1, FanoutCap)]
                     ELSE bridges[b]]
    /\ UNCHANGED <<supervisorVars, sessionVars, registryVars, processVars>>

\* The bridge, suspended on its receiver and its cancel handle, is woken by
\* a result.  A fired cancel handle is observed first.
BridgeRecv(b) ==
    /\ Running
    /\ UNCHANGED lua
    /\ UNCHANGED <<shutdownVars, fetcherVars, consumerVars, mathVars>>
    /\ bridges[b].st = "wait"
    /\ ~bridges[b].cancelled
    /\ bridges[b].inbox > 0
    /\ bridges' = [bridges EXCEPT ![b].st = "hold", ![b].inbox = @ - 1]
    /\ UNCHANGED <<supervisorVars, sessionVars, registryVars, processVars>>

\* The bridge relays the result it holds into its Session's queue; a
\* forwarding failure (queue full, Session gone) is dropped silently.
BridgeForward(b) ==
    /\ Running
    /\ UNCHANGED lua
    /\ UNCHANGED <<shutdownVars, fetcherVars, consumerVars, mathVars>>
    /\ bridges[b].st = "hold"
    /\ LET s == bridges[b].sess
           fits == ~SessionGone(s) /\ Len(queue[s]) < QueueCap
           isOld == bridges[b].old
       IN /\ queue' = IF fits
                      THEN [queue EXCEPT
                              ![s] = Append(@, IF isOld THEN "late"
                                               ELSE "fresh")]
                      ELSE queue
          /\ lateCall' = IF fits /\ isOld
                         THEN [lateCall EXCEPT ![s] = Min(@ + 1, 2)]
                         ELSE lateCall
          /\ bridges' = [bridges EXCEPT
                           ![b].st = "wait",
                           ![b].late = IF fits /\ isOld
                                       THEN Min(@ + 1, 2) ELSE @]
    /\ UNCHANGED <<supervisorVars, kill_txs, sub>>
    /\ UNCHANGED <<registryVars, processVars>>

\* The bridge, woken by the shutdown notification, forwards the sentinel
\* (None) into its Session's queue, once, and goes on.
BridgeSentinel(b) ==
    /\ Running
    /\ UNCHANGED lua
    /\ UNCHANGED <<shutdownVars, fetcherVars, consumerVars, mathVars>>
    /\ bridges[b].st = "shutdown"
    /\ LET s == bridges[b].sess
           fits == ~SessionGone(s) /\ Len(queue[s]) < QueueCap
       IN queue' = IF fits THEN [queue EXCEPT ![s] = Append(@, "none")]
                   ELSE queue
    /\ bridges' = [bridges EXCEPT ![b].st = "wait"]
    /\ UNCHANGED <<supervisorVars, kill_txs, sub, lateCall>>
    /\ UNCHANGED <<registryVars, processVars>>

\* A channel-closed condition: the endpoint the bridge reads from is gone,
\* and the bridge stops.  Its cancel handle stays where the Session
\* recorded it.
BridgeEndpointGone(b) ==
    /\ Running
    /\ UNCHANGED lua
    /\ UNCHANGED <<shutdownVars, fetcherVars, consumerVars, mathVars>>
    /\ bridges[b].st = "wait"
    /\ ~bridges[b].cancelled
    /\ bridges' = [bridges EXCEPT ![b].st = "stopped"]
    /\ UNCHANGED <<supervisorVars, sessionVars, registryVars, processVars>>

\* A bridge that, when it ends as the last one attached to its Fetcher,
\* takes the Fetcher out of the registry.
BridgeCancelledEvicts(b) ==
    /\ Running
    /\ UNCHANGED lua
    /\ UNCHANGED <<shutdownVars, fetcherVars, consumerVars, mathVars>>
    /\ bridges[b].st = "wait"
    /\ bridges[b].cancelled
    /\ bridges' = [bridges EXCEPT ![b] = FreeBridge]
    /\ fetchers' =
          IF \E o \in BridgeIds \ {b} :
                /\ bridges[o].st # "free"
                /\ PayloadKey(bridges[o].t) = PayloadKey(bridges[b].t)
          THEN fetchers
          ELSE fetchers \ {PayloadKey(bridges[b].t)}
    /\ UNCHANGED <<supervisorVars, sessionVars, processVars>>
    /\ UNCHANGED <<lock, pollers, requested, periods, poisoned>>

\* The bridge observes its fired (or dropped) cancel handle and ends.
BridgeCancelled(b) ==
    /\ Running
    /\ UNCHANGED lua
    /\ UNCHANGED <<shutdownVars, fetcherVars, consumerVars, mathVars>>
    /\ bridges[b].st = "wait"
    /\ bridges[b].cancelled
    /\ bridges' = [bridges EXCEPT ![b] = FreeBridge]
    /\ UNCHANGED <<supervisorVars, sessionVars, registryVars, processVars>>

\* ------------------------------------------------ the Fetcher (fetcher.rs)

\* The url of the Fetcher's payload, and the urls a response can carry: the
\* same, or another after a redirect.
PayloadUrl == "u1"

ResponseUrls == {"u1", "u1/moved"}

\* Status codes of a response: the first and the last that are a success,
\* the first past them, and one client error.
Statuses == {200, 299, 300, 404}

\* StatusCode::is_success
IsSuccess(st) == st >= 200 /\ st <= 299

NoResp == [status |-> 0, url |-> ""]

\* A ResponsePayload whose error flag is never set.
NewResponsePayloadNoFlag(request_url, r) ==
    [url |-> request_url, status |-> r.status, error |-> FALSE]

\* ResponsePayload::new(request_url, resp)
NewResponsePayload(request_url, r) ==
    [url |-> request_url, status |-> r.status,
     error |-> ~IsSuccess(r.status)]

\* ResponsePayload::from_string(&payload.url, now.to_string())
LocalResult == [url |-> PayloadUrl, status |-> 0, error |-> FALSE]

Others == <<supervisorVars, sessionVars, registryVars, bridges,
            processVars, shutdownVars, mathVars, lua>>

\* The task builds its clients before the loop: with an address in
\* GRASSHOPPER_LOCAL_ADDRS that does not parse, expect("invalid local
\* address") panics and the task ends before its first tick.
FetcherSetupPanics ==
    /\ Running
    /\ UNCHANGED routeVars
    /\ UNCHANGED <<resp, newest>>
    /\ UNCHANGED conv
    /\ fpc = "Timer"
    /\ ticks = 0
    /\ fpc' = "Panicked"
    /\ UNCHANGED <<ticks, produced, last_data, killed, polled>>
    /\ UNCHANGED <<consumerVars, Others>>

\* A timer that starts the next iteration when the period has elapsed,
\* whether or not the request of the current one is still in flight.
FetcherTickOverlaps ==
    /\ Running
    /\ UNCHANGED routeVars
    /\ UNCHANGED <<resp, newest>>
    /\ UNCHANGED conv
    /\ fpc \in {"Timer", "Select", "Read"}
    /\ ticks < MaxTicks \/ killed
    /\ ticks' = Min(ticks + 1, MaxTicks)
    /\ polled' = FALSE
    /\ fpc' = "Build"
    /\ UNCHANGED <<produced, last_data, killed, consumerVars, Others>>

\* interval.tick().await returns: the next iteration of the task's loop.
\* The ticks are counted up to MaxTicks; the task of a dropped Fetcher is
\* followed beyond that count, which then stays at the bound.
FetcherTick ==
    /\ Running
    /\ UNCHANGED routeVars
    /\ UNCHANGED <<resp, newest>>
    /\ UNCHANGED conv
    /\ fpc = "Timer"
    /\ ticks < MaxTicks \/ killed
    /\ ticks' = Min(ticks + 1, MaxTicks)
    /\ polled' = FALSE
    /\ fpc' = "Build"
    /\ UNCHANGED <<produced, last_data, killed, consumerVars, Others>>

\* into_async_reqwest fails: log and continue.  The conversion is a
\* function of the payload, which is fixed when the Fetcher is created:
\* what the first tick finds, every later tick finds again.
FetcherBuildFails ==
    /\ Running
    /\ UNCHANGED routeVars
    /\ UNCHANGED <<resp, newest>>
    /\ fpc = "Build"
    /\ conv \in {"unknown", "err"}
    /\ conv' = "err"
    /\ fpc' = "Timer"
    /\ UNCHANGED <<ticks, produced, last_data, killed, polled>>
    /\ UNCHANGED <<consumerVars, Others>>

\* The request is built; the task enters select! { execute(req), krx }.
FetcherBuildOk ==
    /\ Running
    /\ UNCHANGED route
    /\ local_address_index' = (local_address_index + 1) % IndexMod
    /\ UNCHANGED <<resp, newest>>
    /\ fpc = "Build"
    /\ conv \in {"unknown", "remote"}
    /\ conv' = "remote"
    /\ fpc' = "Select"
    /\ UNCHANGED <<ticks, produced, last_data, killed, polled>>
    /\ UNCHANGED <<consumerVars, Others>>

\* The host is "millis.local": the result is made up from the clock, with
\* no request; it is stored and notified, and the loop continues.
FetcherLocal ==
    /\ Running
    /\ UNCHANGED routeVars
    /\ UNCHANGED <<resp, newest>>
    /\ fpc = "Build"
    /\ conv \in {"unknown", "local"}
    /\ conv' = "local"
    /\ fpc' = "Store"
    /\ UNCHANGED <<ticks, produced, last_data, killed, polled>>
    /\ UNCHANGED <<consumerVars, Others>>

\* select! polls the execute branch: the request is dispatched.  select!
\* picks the branch it polls first at random, so this step is possible
\* also when the kill handle has already fired.
FetcherDispatch ==
    /\ Running
    /\ UNCHANGED routeVars
    /\ UNCHANGED <<resp, newest>>
    /\ UNCHANGED conv
    /\ fpc = "Select"
    /\ ~polled
    /\ polled' = TRUE
    /\ UNCHANGED <<fpc, ticks, produced, last_data, killed>>
    /\ UNCHANGED <<consumerVars, Others>>

\* select! finds the kill branch ready: break.
FetcherKilled ==
    /\ Running
    /\ UNCHANGED routeVars
    /\ UNCHANGED <<resp, newest>>
    /\ UNCHANGED conv
    /\ fpc = "Select"
    /\ killed
    /\ fpc' = "Ended"
    /\ UNCHANGED <<ticks, produced, last_data, killed, polled>>
    /\ UNCHANGED <<consumerVars, Others>>

\* A transport error that ends the task.
FetcherTransportErrorBreaks ==
    /\ Running
    /\ UNCHANGED routeVars
    /\ UNCHANGED <<resp, newest>>
    /\ UNCHANGED conv
    /\ fpc = "Select"
    /\ polled
    /\ fpc' = "Ended"
    /\ UNCHANGED <<ticks, produced, last_data, killed, polled>>
    /\ UNCHANGED <<consumerVars, Others>>

\* Err(err) => error!("cannot send request"): the loop goes on.
FetcherTransportError ==
    /\ Running
    /\ UNCHANGED routeVars
    /\ UNCHANGED <<resp, newest>>
    /\ UNCHANGED conv
    /\ fpc = "Select"
    /\ polled
    /\ fpc' = "Timer"
    /\ UNCHANGED <<ticks, produced, last_data, killed, polled>>
    /\ UNCHANGED <<consumerVars, Others>>

\* Ok(x): a response arrived, with any status and, after a redirect, with
\* a url of its own; a non-success status is logged, and the body is read
\* next.
FetcherResponse ==
    /\ Running
    /\ UNCHANGED routeVars
    /\ UNCHANGED <<conv, newest>>
    /\ fpc = "Select"
    /\ polled
    /\ \E st \in Statuses, u \in ResponseUrls :
          resp' = [status |-> st, url |-> u]
    /\ fpc' = "Read"
    /\ UNCHANGED <<ticks, produced, last_data, killed, polled>>
    /\ UNCHANGED <<consumerVars, Others>>

\* ResponsePayload::new fails: log and continue.
FetcherReadFails ==
    /\ Running
    /\ UNCHANGED routeVars
    /\ UNCHANGED <<conv, newest>>
    /\ fpc = "Read"
    /\ resp' = NoResp
    /\ fpc' = "Timer"
    /\ UNCHANGED <<ticks, produced, last_data, killed, polled>>
    /\ UNCHANGED <<consumerVars, Others>>

\* ResponsePayload::new succeeds: the result is ready to be stored.
FetcherReadOk ==
    /\ Running
    /\ UNCHANGED routeVars
    /\ UNCHANGED <<resp, newest>>
    /\ UNCHANGED conv
    /\ fpc = "Read"
    /\ fpc' = "Store"
    /\ UNCHANGED <<ticks, produced, last_data, killed, polled>>
    /\ UNCHANGED <<consumerVars, Others>>

\* A store that waits until the slot is empty.
FetcherPublishWaitsForRoom ==
    /\ Running
    /\ UNCHANGED routeVars
    /\ UNCHANGED conv
    /\ fpc = "Store"
    /\ newest' = IF resp = NoResp THEN LocalResult
                 ELSE NewResponsePayload(PayloadUrl, resp)
    /\ resp' = NoResp
    /\ last_data = 0
    /\ produced' = Min(produced + 1, MaxTicks)
    /\ last_data' = Min(produced + 1, MaxTicks)
    /\ owed' = {c \in Consumers : cpc[c] = "wait"}
    /\ fpc' = "Notify"
    /\ UNCHANGED <<ticks, killed, polled, cpc, got, Others>>

\* A store that leaves an unread result in place and drops the new one.
FetcherPublishKeepsOldest ==
    /\ Running
    /\ UNCHANGED routeVars
    /\ UNCHANGED conv
    /\ fpc = "Store"
    /\ newest' = IF resp = NoResp THEN LocalResult
                 ELSE NewResponsePayload(PayloadUrl, resp)
    /\ resp' = NoResp
    /\ produced' = Min(produced + 1, MaxTicks)
    /\ last_data' = IF last_data = 0 THEN Min(produced + 1, MaxTicks) ELSE last_data
    /\ owed' = {c \in Consumers : cpc[c] = "wait"}
    /\ fpc' = "Notify"
    /\ UNCHANGED <<ticks, killed, polled, cpc, got, Others>>

\* A store in which the responses of the first two ticks arrive swapped
\* (each request running as a task of its own).
FetcherPublishSwapped ==
    /\ Running
    /\ UNCHANGED routeVars
    /\ UNCHANGED conv
    /\ fpc = "Store"
    /\ newest' = IF resp = NoResp THEN LocalResult
                 ELSE NewResponsePayload(PayloadUrl, resp)
    /\ resp' = NoResp
    /\ produced' = Min(produced + 1, MaxTicks)
    /\ last_data' = IF produced = 0 THEN 2
                    ELSE IF produced = 1 THEN 1 ELSE Min(produced + 1, MaxTicks)
    /\ owed' = {c \in Consumers : cpc[c] = "wait"}
    /\ fpc' = "Notify"
    /\ UNCHANGED <<ticks, killed, polled, cpc, got, Others>>

\* *last_data.lock().unwrap() = Some(payload): the slot is overwritten,
\* whatever it holds.  The results are numbered up to MaxTicks; only the
\* task of a dropped Fetcher, which nobody reads, can publish more.
FetcherPublish ==
    /\ Running
    /\ UNCHANGED routeVars
    /\ UNCHANGED conv
    /\ fpc = "Store"
    /\ newest' = IF resp = NoResp THEN LocalResult
                 ELSE NewResponsePayload(PayloadUrl, resp)
    /\ resp' = NoResp
    /\ produced' = Min(produced + 1, MaxTicks)
    /\ last_data' = Min(produced + 1, MaxTicks)
    /\ owed' = {c \in Consumers : cpc[c] = "wait"}
    /\ fpc' = "Notify"
    /\ UNCHANGED <<ticks, killed, polled, cpc, got, Others>>

\* notify.notify_waiters(): every consumer suspended on notified() resumes
\* and checks the slot again.
FetcherNotify ==
    /\ Running
    /\ UNCHANGED routeVars
    /\ UNCHANGED <<resp, newest>>
    /\ UNCHANGED conv
    /\ fpc = "Notify"
    /\ cpc' = [c \in Consumers |->
                 IF cpc[c] = "wait" THEN "check" ELSE cpc[c]]
    /\ fpc' = "Timer"
    /\ UNCHANGED <<ticks, produced, last_data, killed, polled>>
    /\ UNCHANGED <<got, owed, Others>>

\* impl Drop for Fetcher: the last Arc is gone (so nobody is inside next)
\* and the kill handle fires.
FetcherDrop ==
    /\ Running
    /\ UNCHANGED routeVars
    /\ UNCHANGED <<resp, newest>>
    /\ UNCHANGED conv
    /\ ~killed
    /\ \A c \in Consumers : cpc[c] = "idle"
    /\ killed' = TRUE
    /\ UNCHANGED <<fpc, ticks, produced, last_data, polled>>
    /\ UNCHANGED <<consumerVars, Others>>

\* A consumer holding an Arc<Fetcher> calls Fetcher::next.
ConsumerCall(c) ==
    /\ Running
    /\ UNCHANGED <<resp, newest>>
    /\ UNCHANGED conv
    /\ ~killed
    /\ cpc[c] = "idle"
    /\ cpc' = [cpc EXCEPT ![c] = "check"]
    /\ UNCHANGED <<fetcherVars, got, owed, Others>>

\* self.last_data.lock().unwrap().take(): a result is returned and the slot
\* left empty; with an empty slot the consumer goes on to notified().
ConsumerCheck(c) ==
    /\ Running
    /\ UNCHANGED routeVars
    /\ UNCHANGED <<resp, newest>>
    /\ UNCHANGED conv
    /\ cpc[c] = "check"
    /\ IF last_data # 0
       THEN /\ got' = [got EXCEPT ![c] = Append(@, last_data)]
            /\ last_data' = 0
            /\ cpc' = [cpc EXCEPT ![c] = "idle"]
       ELSE /\ cpc' = [cpc EXCEPT ![c] = "unarmed"]
            /\ UNCHANGED <<got, last_data>>
    /\ UNCHANGED <<fpc, ticks, produced, killed, polled, owed, Others>>

\* self.notify.notified(): from here on notify_waiters resumes the consumer.
ConsumerArm(c) ==
    /\ Running
    /\ UNCHANGED <<resp, newest>>
    /\ UNCHANGED conv
    /\ cpc[c] = "unarmed"
    /\ cpc' = [cpc EXCEPT ![c] = "wait"]
    /\ UNCHANGED <<fetcherVars, got, owed, Others>>

\* ------------------------------------------------------------- math_utils

\* A script calls floor_to_decimals, ceil_to_decimals and round_to_decimals
\* on one value.
CallRounding ==
    /\ UNCHANGED lua
    /\ ~res.called
    /\ res' = [called |-> TRUE,
               floor |-> floor_to_decimals(arg.value, arg.decimals),
               ceil |-> ceil_to_decimals(arg.value, arg.decimals),
               round |-> round_to_decimals(arg.value, arg.decimals)]
    /\ UNCHANGED <<arg, fetcherVars, consumerVars>>
    /\ UNCHANGED <<supervisorVars, sessionVars, registryVars, bridges,
                   processVars, shutdownVars>>

\* ------------------------------------------------------------------- main

\* SIGTERM / SIGINT: TERMINATE.store(true, SeqCst).
Terminate ==
    /\ Running
    /\ UNCHANGED lua
    /\ UNCHANGED <<shutdownVars, fetcherVars, consumerVars, mathVars>>
    /\ ~TERMINATE
    /\ TERMINATE' = TRUE
    /\ UNCHANGED <<supervisorVars, sessionVars, registryVars, bridges,
                   host, joined>>

\* TERMINATE_NOTIFY.notify_waiters(), right after the store: the bridges
\* suspended at that moment are woken; a bridge that suspends later is not.
NotifyWaiters ==
    /\ Running
    /\ UNCHANGED lua
    /\ UNCHANGED <<nones, fetcherVars, consumerVars, mathVars>>
    /\ TERMINATE
    /\ ~notified
    /\ notified' = TRUE
    /\ bridges' = [b \in BridgeIds |->
                     IF bridges[b].st = "wait" /\ ~bridges[b].cancelled
                     THEN [bridges[b] EXCEPT !.st = "shutdown"]
                     ELSE bridges[b]]
    /\ UNCHANGED <<supervisorVars, sessionVars, registryVars, processVars>>

\* A signal task that exits only when no script is blocked in next().
ForceExitAfterCleanup ==
    /\ Running
    /\ UNCHANGED lua
    /\ UNCHANGED <<shutdownVars, fetcherVars, consumerVars, mathVars>>
    /\ TERMINATE
    /\ \A s \in Scripts : pc[s] # "Recv"
    /\ host' = "forced"
    /\ UNCHANGED <<supervisorVars, sessionVars, registryVars, bridges,
                   TERMINATE, joined>>

\* Ten seconds after the signal: exit(-1).
ForceExit ==
    /\ Running
    /\ UNCHANGED lua
    /\ UNCHANGED <<shutdownVars, fetcherVars, consumerVars, mathVars>>
    /\ TERMINATE
    /\ host' = "forced"
    /\ UNCHANGED <<supervisorVars, sessionVars, registryVars, bridges,
                   TERMINATE, joined>>

\* for runtime in runtimes { runtime.join().expect("Lua runtime panicked") }
MainJoin ==
    /\ Running
    /\ UNCHANGED lua
    /\ UNCHANGED <<shutdownVars, fetcherVars, consumerVars, mathVars>>
    /\ joined < Len(ScriptOrder)
    /\ LET s == ScriptOrder[joined + 1]
       IN \/ /\ pc[s] = "Stopped"
             /\ joined' = joined + 1
             /\ host' = host
          \/ /\ pc[s] = "Panicked"
             /\ host' = "panicked"
             /\ joined' = joined
    /\ UNCHANGED <<supervisorVars, sessionVars, registryVars, bridges,
                   TERMINATE>>

\* Ok(()) at the end of main.
MainReturn ==
    /\ Running
    /\ UNCHANGED lua
    /\ UNCHANGED <<shutdownVars, fetcherVars, consumerVars, mathVars>>
    /\ joined = Len(ScriptOrder)
    /\ host' = "returned"
    /\ UNCHANGED <<supervisorVars, sessionVars, registryVars, bridges,
                   TERMINATE, joined>>

\* ---------------------------------------------------------- specification

\* Results of LuaInstance::new: Ok, an mlua::Error, any other error.
NewResults == {"ok", "lua_error", "other_error"}

\* The supervisor loop, the script body and main, with the Sessions'
\* subscriptions but without the traffic of results.
SupervisorStep(s) ==
    \/ LoopTop(s)
    \/ \E r \in NewResults : NewInstance(s, r)
    \/ FatalPanic(s)
    \/ NewSleepElapsed(s)
    \/ InvalidateAll(s)
    \/ BackoffElapsed(s)

ScriptStep(s, T) ==
    \/ \E t \in T : SubscribeEntry(s, t)
    \/ SubscribeAttach(s)
    \/ ScriptReturn(s)
    \/ ScriptError(s)
    \/ ScriptFault(s)

MainStep ==
    \/ Terminate
    \/ ForceExit
    \/ MainJoin
    \/ MainReturn

TrafficStep ==
    \/ \E k \in fetchers : Publish(k)
    \/ \E b \in BridgeIds : BridgeRecv(b)
    \/ \E b \in BridgeIds : BridgeForward(b)

\* The life cycle of the supervisors: the loop, the script bodies with their
\* subscriptions to one target, the termination signal and main.  The
\* traffic of results, which touches neither the loop nor main, is left out.
LifecycleStep ==
    \/ \E s \in Scripts : SupervisorStep(s)
    \/ \E s \in Scripts : ScriptStep(s, OneTarget)
    \/ \E b \in BridgeIds : BridgeCancelled(b)
    \/ MainStep

Spec == Init /\ [][LifecycleStep]_vars

\* A supervisor thread that sleeps wakes up, and one at the loop top goes on.
SupervisorFairness ==
    \A s \in Scripts :
       /\ WF_vars(BackoffElapsed(s)) /\ WF_vars(LoopTop(s))
       /\ WF_vars(NewSleepElapsed(s))

FairSpec == Spec /\ SupervisorFairness

\* The registry: the Sessions subscribe concurrently, each to any targets,
\* until their scripts return; the bridges of a Session that is gone end.
RegistryStep ==
    \/ \E s \in Scripts : LoopTop(s)
    \/ \E s \in Scripts : NewInstance(s, "ok")
    \/ \E s \in Scripts : InvalidateAll(s)
    \/ \E s \in Scripts, t \in Targets : SubscribeEntry(s, t)
    \/ \E s \in Scripts : SubscribeAttach(s)
    \/ \E s \in Scripts : ScriptReturn(s)
    \/ \E b \in BridgeIds : BridgeCancelled(b)

RegistrySpec == Init /\ [][RegistryStep]_vars

\* One Session with its traffic: the script subscribes, receives and fails,
\* the Fetcher publishes, the bridges forward.
SessionScripts == {"s1"}

SessionStep ==
    \/ \E s \in SessionScripts : LoopTop(s)
    \/ \E s \in SessionScripts : NewInstance(s, "ok")
    \/ \E s \in SessionScripts : InvalidateAll(s)
    \/ \E s \in SessionScripts : BackoffElapsed(s)
    \/ \E s \in SessionScripts : ScriptStep(s, OneTarget)
    \/ \E s \in SessionScripts : Next(s)
    \/ \E b \in BridgeIds : BridgeCancelled(b)
    \/ TrafficStep

SessionSpec == Init /\ [][SessionStep]_vars

\* The ten seconds of grace are over: the notification has gone out and no
\* bridge or receiver has a step left to take on what it has been handed.
GraceElapsed ==
    /\ notified
    /\ \A b \in BridgeIds : bridges[b].st \notin {"shutdown", "hold"}
    /\ \A s \in Scripts : ~(pc[s] = "Recv" /\ queue[s] # <<>>)

\* One Session at shutdown: the script subscribes, receives and returns;
\* the signal task raises the flag, notifies and, after the grace period,
\* exits.
ShutdownStep ==
    \/ \E s \in SessionScripts : LoopTop(s)
    \/ \E s \in SessionScripts : NewInstance(s, "ok")
    \/ \E s \in SessionScripts : InvalidateAll(s)
    \/ \E s \in SessionScripts, t \in OneTarget : SubscribeEntry(s, t)
    \/ \E s \in SessionScripts : SubscribeAttach(s)
    \/ \E s \in SessionScripts : ScriptReturn(s)
    \/ \E s \in SessionScripts : Next(s)
    \/ \E s \in SessionScripts : NextBlock(s)
    \/ \E s \in SessionScripts : NextWake(s)
    \/ \E b \in BridgeIds : BridgeSentinel(b)
    \/ \E b \in BridgeIds : BridgeCancelled(b)
    \/ TrafficStep
    \/ Terminate
    \/ NotifyWaiters
    \/ (GraceElapsed /\ ForceExit)

\* The signal task, the bridges and a resumed receiver all take their steps.
ShutdownFairness ==
    /\ WF_vars(NotifyWaiters)
    /\ WF_vars(GraceElapsed /\ ForceExit)
    /\ \A s \in SessionScripts : WF_vars(NextWake(s))
    /\ \A b \in BridgeIds :
          /\ WF_vars(BridgeRecv(b))
          /\ WF_vars(BridgeForward(b))
          /\ WF_vars(BridgeSentinel(b))

ShutdownSpec == Init /\ [][ShutdownStep]_vars /\ ShutdownFairness

\* The whole shutdown: both supervisor threads, one of them with a script
\* that subscribes and receives, the signal task and main.  The sleep of
\* the signal task elapses whatever else goes on.
ExitStep ==
    \/ \E s \in Scripts : LoopTop(s)
    \/ \E s \in Scripts : NewInstance(s, "ok")
    \/ \E s \in Scripts : InvalidateAll(s)
    \/ \E s \in Scripts : ScriptReturn(s)
    \/ \E s \in SessionScripts, t \in OneTarget : SubscribeEntry(s, t)
    \/ \E s \in SessionScripts : SubscribeAttach(s)
    \/ \E s \in SessionScripts : Next(s)
    \/ \E s \in SessionScripts : NextBlock(s)
    \/ \E s \in SessionScripts : NextWake(s)
    \/ \E b \in BridgeIds : BridgeSentinel(b)
    \/ \E b \in BridgeIds : BridgeCancelled(b)
    \/ MainStep
    \/ NotifyWaiters

ExitSpec ==
    /\ Init /\ [][ExitStep]_vars
    /\ WF_vars(NotifyWaiters)
    /\ WF_vars(ForceExit)

\* gh._subscribe with any value: the Sessions subscribe, with payloads that
\* deserialize and with a value that does not, fail and are restarted.
CallStep ==
    \/ \E s \in Scripts : LoopTop(s)
    \/ \E s \in Scripts : NewInstance(s, "ok")
    \/ \E s \in Scripts : InvalidateAll(s)
    \/ \E s \in Scripts : BackoffElapsed(s)
    \/ \E s \in Scripts : ScriptError(s)
    \/ \E s \in Scripts, v \in LuaValues :
          Deserializes(v) /\ SubscribeEntry(s, v)
    \/ \E s \in Scripts : SubscribeAttach(s)
    \/ \E s \in Scripts, v \in LuaValues : SubscribeRejected(s, v)
    \/ \E s \in Scripts : SubscribeErrorReturns(s)
    \/ \E b \in BridgeIds : BridgeCancelled(b)

CallSpec == Init /\ [][CallStep]_vars

\* One Session whose bridges may meet a closed channel: the script
\* subscribes and fails, the loop retries, and main joins the thread.
ClosedStep ==
    \/ \E s \in SessionScripts : LoopTop(s)
    \/ \E s \in SessionScripts : NewInstance(s, "ok")
    \/ \E s \in SessionScripts : InvalidateAll(s)
    \/ \E s \in SessionScripts : InvalidateAllPanics(s)
    \/ \E s \in SessionScripts : BackoffElapsed(s)
    \/ \E s \in SessionScripts : ScriptStep(s, OneTarget)
    \/ \E b \in BridgeIds : BridgeEndpointGone(b)
    \/ \E b \in BridgeIds : BridgeCancelled(b)
    \/ MainJoin

ClosedSpec == Init /\ [][ClosedStep]_vars

\* One Fetcher with the callers of its next(): the task ticks, a tick
\* ends in a failure or in a result, consumers come and go, and the Fetcher
\* may be dropped.
FetcherTaskStep ==
    \/ FetcherTick
    \/ FetcherBuildFails
    \/ FetcherBuildOk
    \/ FetcherLocal
    \/ FetcherDispatch
    \/ FetcherKilled
    \/ FetcherTransportError
    \/ FetcherResponse
    \/ FetcherReadFails
    \/ FetcherReadOk
    \/ FetcherPublish
    \/ FetcherNotify

FetcherStep ==
    \/ FetcherTaskStep
    \/ FetcherDrop
    \/ \E c \in Consumers : ConsumerCall(c)
    \/ \E c \in Consumers : ConsumerCheck(c)
    \/ \E c \in Consumers : ConsumerArm(c)

\* The runtime keeps polling the task, and a select! that is entered again
\* and again with the kill handle fired ends by taking the kill branch;
\* nothing is assumed of the consumers.
FetcherSpec ==
    /\ Init /\ [][FetcherStep]_vars
    /\ WF_vars(FetcherTaskStep)
    /\ SF_vars(FetcherKilled)

\* The same Fetcher in an environment whose GRASSHOPPER_LOCAL_ADDRS may be
\* malformed.  A consumer inside next() takes its steps.
FetcherEnvStep ==
    \/ FetcherStep
    \/ FetcherSetupPanics

FetcherEnvSpec ==
    /\ Init /\ [][FetcherEnvStep]_vars
    /\ WF_vars(FetcherTaskStep)
    /\ SF_vars(FetcherKilled)
    /\ \A c \in Consumers :
          WF_vars(ConsumerCheck(c)) /\ WF_vars(ConsumerArm(c))

\* The fetchers lock among Sessions that subscribe, block in next() with
\* nothing to receive, fail and are restarted.  A thread that is inside
\* subscribe is running: it gets to the end of the call.
LockStep ==
    \/ \E s \in Scripts : LoopTop(s)
    \/ \E s \in Scripts : NewInstance(s, "ok")
    \/ \E s \in Scripts : InvalidateAll(s)
    \/ \E s \in Scripts, t \in OneTarget : SubscribeEntry(s, t)
    \/ \E s \in Scripts : SubscribeAttach(s)
    \/ \E s \in Scripts : ScriptReturn(s)
    \/ \E b \in BridgeIds : BridgeCancelled(b)
    \/ \E s \in Scripts : NextBlock(s)
    \/ \E s \in Scripts : ScriptError(s)
    \/ \E s \in Scripts : BackoffElapsed(s)

LockSpec ==
    /\ Init /\ [][LockStep]_vars
    /\ \A s \in Scripts : WF_vars(SubscribeAttach(s))

\* The task of one Fetcher with its clients, at the top of its loop after
\* any number of requests: with or without primary_only, with no list of
\* addresses or with one of up to MaxAddrs.  The Fetcher may be dropped.
RouteInit ==
    /\ ProgramInit
    /\ route \in Routes
    /\ local_address_index \in 0..(IndexMod - 1)
    /\ arg = NoArg
    /\ res = NoRes

RouteStep ==
    \/ FetcherTaskStep
    \/ FetcherDrop

RouteSpec == RouteInit /\ [][RouteStep]_vars

\* The Sessions subscribe to one target with any of the periods, fail and
\* are restarted.
Periods == 1..MaxPeriod

PeriodStep ==
    \/ \E s \in Scripts : LoopTop(s)
    \/ \E s \in Scripts : NewInstance(s, "ok")
    \/ \E s \in Scripts : InvalidateAll(s)
    \/ \E s \in Scripts : BackoffElapsed(s)
    \/ \E s \in Scripts : ScriptError(s)
    \/ \E s \in Scripts, t \in OneTarget, p \in Periods :
          SubscribeEntryFor(s, t, p)
    \/ \E s \in Scripts : SubscribeAttach(s)
    \/ \E b \in BridgeIds : BridgeCancelled(b)

PeriodSpec == Init /\ [][PeriodStep]_vars

\* Faults inside the Session: the scripts subscribe and wait in next(), a
\* panic may be raised inside either call, and the loop retries.
FaultStep ==
    \/ \E s \in Scripts : LoopTop(s)
    \/ \E s \in Scripts : NewInstance(s, "ok")
    \/ \E s \in Scripts : InvalidateAll(s)
    \/ \E s \in Scripts : SessionLockPoisoned(s)
    \/ \E s \in Scripts : BackoffElapsed(s)
    \/ \E s \in Scripts, t \in OneTarget : SubscribeEntry(s, t)
    \/ \E s \in Scripts : SubscribeAttach(s)
    \/ \E s \in Scripts : SubscribeFault(s)
    \/ \E s \in Scripts : SubscribePoisoned(s)
    \/ \E s \in Scripts : NextBlock(s)
    \/ \E s \in Scripts : NextFault(s)
    \/ \E b \in BridgeIds : BridgeCancelled(b)

FaultSpec == Init /\ [][FaultStep]_vars

\* The way to Stopped: scripts that subscribe, call next() and return or
\* fail, the loop with its backoff, the bridges with the shutdown
\* notification, the signal and main's joins.  The forced exit is left
\* out.
StopStep ==
    \/ \E s \in Scripts : LoopTop(s)
    \/ \E s \in Scripts : NewInstance(s, "ok")
    \/ \E s \in Scripts : InvalidateAll(s)
    \/ \E s \in Scripts : BackoffElapsed(s)
    \/ \E s \in Scripts : ScriptReturn(s)
    \/ \E s \in Scripts : ScriptError(s)
    \/ \E s \in SessionScripts, t \in OneTarget : SubscribeEntry(s, t)
    \/ \E s \in SessionScripts : SubscribeAttach(s)
    \/ \E s \in Scripts : Next(s)
    \/ \E s \in Scripts : NextBlock(s)
    \/ \E s \in Scripts : NextWake(s)
    \/ \E b \in BridgeIds : BridgeSentinel(b)
    \/ \E b \in BridgeIds : BridgeCancelled(b)
    \/ Terminate
    \/ NotifyWaiters
    \/ MainJoin
    \/ MainReturn

\* Every thread and task that can take a step takes it; after the signal a
\* script that is not suspended calls next(), and a script that next() has
\* handed Nil returns or fails.
StopFairness ==
    /\ WF_vars(NotifyWaiters) /\ WF_vars(MainJoin) /\ WF_vars(MainReturn)
    /\ \A s \in Scripts :
          /\ WF_vars(LoopTop(s)) /\ WF_vars(NewInstance(s, "ok"))
          /\ WF_vars(InvalidateAll(s)) /\ WF_vars(BackoffElapsed(s))
          /\ WF_vars(SubscribeAttach(s)) /\ WF_vars(NextWake(s))
          /\ WF_vars(TERMINATE /\ Next(s))
          /\ WF_vars(nones[s] > 0 /\ (ScriptReturn(s) \/ ScriptError(s)))
    /\ \A b \in BridgeIds :
          WF_vars(BridgeSentinel(b)) /\ WF_vars(BridgeCancelled(b))

StopSpec == Init /\ [][StopStep]_vars /\ StopFairness

\* floor_to_decimals and ceil_to_decimals, for every value and decimals.
MathInit ==
    /\ ProgramInit
    /\ TaskInit
    /\ arg \in [value : Decimals, decimals : DecimalsRange]
    /\ res = NoRes

MathSpec == MathInit /\ [][CallRounding]_vars

\* ------------------------------------------------------------ the registry

\* The fingerprints in some fixed order, to add up a count kept for each.
FingerprintOrder ==
    CHOOSE q \in [1..Cardinality(Fingerprints) -> Fingerprints] :
       \A f \in Fingerprints : \E i \in DOMAIN q : q[i] = f

RECURSIVE SumTo(_, _)
SumTo(f, n) ==
    IF n = 0 THEN 0 ELSE f[FingerprintOrder[n]] + SumTo(f, n - 1)

\* The number of Fetcher tasks spawned so far.
PollerCount == SumTo(pollers, Cardinality(Fingerprints))

LiveBridges == {b \in BridgeIds : bridges[b].st # "free"}

\* C1: in every reachable state at most one Fetcher task has been spawned
\* for any fingerprint (url, method, body), and the registry holds at most
\* one entry for it, whatever the interleaving of the Sessions' subscribe
\* calls.
C1_OnePollerPerFingerprint ==
    /\ \A f \in Fingerprints : pollers[f] <= 1
    /\ \A k1, k2 \in fetchers :
         (k1[1] = k2[1] /\ k1[2] = k2[2] /\ k1[3] = k2[3]) => k1 = k2

\* Two Sessions are attached to the Fetcher of one fingerprint.
C1_Witness ==
    \E b1, b2 \in LiveBridges :
       /\ bridges[b1].sess # bridges[b2].sess
       /\ Fingerprint(bridges[b1].t) = Fingerprint(bridges[b2].t)
       /\ pollers[Fingerprint(bridges[b1].t)] = 1

\* C2: the number of Fetcher tasks ever spawned equals the number of
\* distinct (url, method, body) triples among the payloads subscribed to.
C2_PollersEqualFingerprints ==
    PollerCount = Cardinality(requested)

\* Two live subscriptions differ only in their headers and share the one
\* Fetcher of their fingerprint, while a payload of another fingerprint,
\* subscribed to earlier, has a Fetcher of its own.
C2_Witness ==
    /\ PollerCount = 2
    /\ Cardinality(requested) = 2
    /\ \E b1, b2 \in LiveBridges :
          /\ bridges[b1].t # bridges[b2].t
          /\ Fingerprint(bridges[b1].t) = Fingerprint(bridges[b2].t)
          /\ pollers[Fingerprint(bridges[b1].t)] = 1

\* --------------------------------------------------------- the supervisor

\* The step in which the script body of s ends in a fault.
Faults(s) == outcome[s] # "fault" /\ outcome'[s] = "fault"

\* The step in which a script body of s begins.
BodyBegins(s) == active'[s] > active[s]

CancelledBridgeOf(s) ==
    \E b \in LiveBridges : bridges[b].sess = s /\ bridges[b].cancelled

C4_RestartsAfterFailure ==
    /\ [](\A s \in Scripts :
             pc[s] = "Stopped" => (outcome[s] = "ok" \/ TERMINATE))
    /\ \A s \in Scripts :
          (pc[s] = "Backoff" /\ outcome[s] \in {"err", "fault"})
             ~> (pc[s] = "New" \/ TERMINATE \/ ~Running)

\* A supervisor starts another attempt after a fault and its backoff, with
\* no termination signal.
C4_Witness ==
    \E s \in Scripts :
       pc[s] = "New" /\ outcome[s] = "fault" /\ slept[s] /\ ~TERMINATE

\* C5: once the script body has returned normally its supervisor is Stopped
\* and stays Stopped, with no body running.
C5_ReturnStops ==
    \A s \in Scripts : outcome[s] = "ok" => (pc[s] = "Stopped" /\ active[s] = 0)

\* A script returned normally, with no termination signal.
C5_Witness ==
    \E s \in Scripts : outcome[s] = "ok" /\ pc[s] = "Stopped" /\ ~TERMINATE

\* C6: at most one script body of a supervisor executes at any time; a body
\* begins only when none is executing and, after a failed attempt, only
\* once the backoff has elapsed.
C6_OneAttemptAtATime ==
    /\ [](\A s \in Scripts : active[s] <= 1)
    /\ [][\A s \in Scripts :
             BodyBegins(s) =>
                /\ active[s] = 0
                /\ outcome[s] \in {"err", "fault"} => slept[s]]_vars

\* A later attempt is running: the Session still has a cancelled bridge of
\* an earlier attempt.
C6_Witness ==
    \E s \in Scripts : pc[s] = "Run" /\ active[s] = 1 /\ CancelledBridgeOf(s)

\* C7: with the termination flag set no supervisor enters a new attempt,
\* and a supervisor that leaves the loop top goes to Stopped.
C7_NoAttemptAfterSignal ==
    [][\A s \in Scripts :
          TERMINATE =>
             /\ pc'[s] = "New" => pc[s] = "New"
             /\ (pc[s] = "Top" /\ pc'[s] # "Top") => pc'[s] = "Stopped"]_vars

\* A supervisor whose script had failed found the flag set after its backoff
\* and stopped.
C7_Witness ==
    \E s \in Scripts :
       /\ TERMINATE /\ pc[s] = "Stopped"
       /\ outcome[s] \in {"err", "fault"} /\ slept[s]

\* C8: when a script body begins, the Session's list of cancel handles is
\* empty; while the body runs the list holds bridges of this attempt only.
C8_InvalidatedBeforeBody ==
    /\ [](\A s \in Scripts :
             pc[s] \in {"Run", "Sub"} =>
                \A i \in 1..Len(kill_txs[s]) :
                   /\ bridges[kill_txs[s][i]].st # "free"
                   /\ bridges[kill_txs[s][i]].sess = s
                   /\ ~bridges[kill_txs[s][i]].old)
    /\ [][\A s \in Scripts : BodyBegins(s) => kill_txs'[s] = <<>>]_vars

\* A retry begins with an empty list although the attempt before it had
\* subscribed.
C8_Witness ==
    \E s \in Scripts :
       pc[s] = "Run" /\ kill_txs[s] = <<>> /\ CancelledBridgeOf(s)

\* ------------------------------------------------------------ the Session

\* The step in which next() of s hands the head of the queue to the script.
NextPop(s) ==
    /\ pc[s] = "Run" /\ pc'[s] = "Run"
    /\ queue[s] # <<>>
    /\ queue'[s] = Tail(queue[s])

\* C9: no result that was enqueued into the Session's queue during an
\* earlier attempt, or during the backoff after it, is handed by next() to
\* the script body of a later attempt.
C9_NoStaleResult ==
    [][\A s \in Scripts : NextPop(s) => Head(queue[s]) # "leftover"]_vars

Invalidates(s) == pc[s] = "Kill" /\ pc'[s] = "Run"

\* C11: kill_all_fetchers cancels every bridge recorded in the Session's
\* list and leaves the list empty; the registry's map, the Fetcher tasks
\* and the other Sessions' lists, bridges and queues stay as they are.
C11_InvalidateAllFrame ==
    [][\A s \in Scripts :
          Invalidates(s) =>
             /\ \A i \in 1..Len(kill_txs[s]) :
                   bridges'[kill_txs[s][i]].cancelled
             /\ kill_txs'[s] = <<>>
             /\ fetchers' = fetchers /\ pollers' = pollers
             /\ fpc' = fpc /\ killed' = killed
             /\ \A o \in Scripts \ {s} :
                   /\ kill_txs'[o] = kill_txs[o]
                   /\ queue'[o] = queue[o]
                   /\ \A b \in BridgeIds :
                         bridges[b].sess = o => bridges'[b] = bridges[b]]_vars

\* A retry has cancelled its Session's bridge while the other Session's
\* bridge to the same Fetcher goes on.
C11_Witness ==
    \E s, o \in Scripts :
       /\ s # o
       /\ pc[s] = "Run" /\ kill_txs[s] = <<>> /\ CancelledBridgeOf(s)
       /\ kill_txs[o] # <<>>
       /\ \A i \in 1..Len(kill_txs[o]) : ~bridges[kill_txs[o][i]].cancelled
       /\ fetchers # {}

\* C12: a Session's list holds at most one cancel handle for any one
\* Fetcher: no two of its bridges forward the results of the same
\* fingerprint.
C12_OneHandlePerPoller ==
    \A s \in Scripts :
       \A i, j \in 1..Len(kill_txs[s]) :
          Fingerprint(bridges[kill_txs[s][i]].t)
             = Fingerprint(bridges[kill_txs[s][j]].t) => i = j

\* -------------------------------------------------------------- shutdown

\* C13: gh._next hands no Nil to the script before the termination signal,
\* and after the signal it hands out Nil once and no more.
C13_SentinelOnce ==
    \A s \in Scripts : nones[s] <= 1 /\ (nones[s] > 0 => TERMINATE)

\* C14: after the termination signal a script suspended in next() is
\* released.
C14_BlockedNextReleased ==
    \A s \in Scripts : (TERMINATE /\ pc[s] = "Recv") ~> (pc[s] # "Recv")

\* ------------------------------------------------------------ the Fetcher

\* C15: every consumer receives the results of the Fetcher in the order in
\* which the task published them: a result received later was published
\* later.
C15_ProductionOrder ==
    \A c \in Consumers :
       \A i, j \in 1..Len(got[c]) : i < j => got[c][i] < got[c][j]

\* A consumer has received two results, and the other consumer one too.
C15_Witness ==
    \E c, d \in Consumers :
       c # d /\ Len(got[c]) >= 2 /\ Len(got[d]) >= 1

\* C16: a consumer that was suspended in next() when the latest result was
\* published, and so was not lagging at all, does not find the slot empty
\* without having received that result.
C16_DeliveredToAll ==
    \A c \in owed :
       cpc[c] = "unarmed" =>
          (got[c] # <<>> /\ got[c][Len(got[c])] = produced)

\* C17: whatever the consumers do, and also if they never call next(), the
\* task goes through all its ticks unless the Fetcher is dropped.
C17_TicksAdvance ==
    <>(ticks = MaxTicks \/ fpc = "Ended")

\* One consumer has never taken a result, the other has received two, and
\* the task has gone through all its ticks.
C17_Witness ==
    \E c, d \in Consumers :
       /\ got[c] = <<>> /\ Len(got[d]) >= 2
       /\ ticks = MaxTicks /\ fpc = "Timer" /\ ~killed

\* C18: the slot never holds anything but the newest published result, so
\* what a lagging consumer misses are older results, and what it reads next
\* is the newest.
C18_NewestKept ==
    /\ [](last_data # 0 => last_data = produced)
    /\ [][\A c \in Consumers :
             Len(got'[c]) > Len(got[c]) =>
                got'[c][Len(got'[c])] = produced]_vars

\* A consumer that lagged has read the third result without ever reading
\* the first two.
C18_Witness ==
    \E c \in Consumers :
       /\ produced = 3 /\ got[c] = <<3>>
       /\ \A d \in Consumers \ {c} : got[d] = <<>>

\* The step in which a tick ends in a failure: the request cannot be
\* built, the transport fails, the body cannot be read.
TickFails ==
    \/ fpc = "Build" /\ fpc' \notin {"Build", "Select", "Store"}
    \/ fpc = "Select" /\ fpc' \notin {"Select", "Read"} /\ ~killed
    \/ fpc = "Read" /\ fpc' \notin {"Read", "Store"}

\* C19: a tick that fails publishes nothing and takes the task back to its
\* timer, and the task ends only when its kill handle has fired.
C19_FailedTickGoesOn ==
    /\ [](fpc = "Ended" => killed)
    /\ [][TickFails =>
             /\ fpc' = "Timer"
             /\ produced' = produced /\ last_data' = last_data
             /\ ticks' = ticks]_vars

\* After two ticks, none of which produced a result, the task has
\* dispatched the request of a third.
C19_Witness ==
    /\ ticks = 3 /\ produced = 0
    /\ fpc = "Select" /\ polled /\ ~killed

\* C20: once the Fetcher has been dropped, the task dispatches no request.
C20_NoDispatchAfterCancel ==
    [][(killed /\ ~polled) => ~polled']_vars

\* C21: a Fetcher that has been dropped has its task end, whatever its
\* payload turns into at each tick.
C21_CancelStopsTask ==
    killed ~> (fpc = "Ended")

\* C22: a request that has been dispatched comes to its own end, a response
\* or a transport error; the task does not end while it is in flight.
C22_InFlightCompletes ==
    [][(fpc = "Select" /\ polled) => fpc' # "Ended"]_vars

C24_ClosedBridgeIsLocal ==
    /\ [][\A s \in Scripts :
             (RecordsStopped(s) /\ pc[s] = "Kill" /\ pc'[s] # "Kill") =>
                /\ pc'[s] = "Run"
                /\ kill_txs'[s] = <<>>
                /\ \A i \in 1..Len(kill_txs[s]) :
                      bridges[kill_txs[s][i]].st # "stopped" =>
                         bridges'[kill_txs[s][i]].cancelled]_vars
    /\ [](host # "panicked")

\* C25: after an mlua::Error of LuaInstance::new the thread sleeps and goes
\* back to the loop top, and neither stops nor panics; after any other
\* error it sleeps and panics.  A thread panics on no other path of the
\* loop, and LuaInstance::new has no other outcome than these and Ok.
C25_CtorErrorByKind ==
    [][\A s \in Scripts :
          /\ (pc[s] = "New" /\ pc'[s] # "New") =>
                pc'[s] \in {"Kill", "NewSleep", "FatalSleep"}
          /\ (pc[s] = "NewSleep" /\ pc'[s] # "NewSleep") =>
                (pc'[s] = "Top" /\ slept'[s])
          /\ (pc[s] = "FatalSleep" /\ pc'[s] # "FatalSleep") =>
                pc'[s] = "Panicked"
          /\ (pc'[s] = "Panicked" /\ pc[s] # "Panicked") =>
                pc[s] = "FatalSleep"]_vars

\* One thread has been through the sleep that follows an mlua::Error and
\* is constructing again, the other has panicked on another error.
C25_Witness ==
    \E s, o \in Scripts :
       /\ pc[s] = "New" /\ slept[s] /\ outcome[s] = "none"
       /\ pc[o] = "Panicked"

\* The step in which Session::subscribe of s returns.
SubscribeReturns(s) == pc[s] = "Sub" /\ pc'[s] # "Sub"

C27_ExitsAfterSignal ==
    TERMINATE ~> (host # "running")

\* The signal task has ended the process while a script was blocked in
\* next() and main was waiting to join its thread.
C27_Witness ==
    /\ host = "forced"
    /\ joined = 0
    /\ \E s \in Scripts : pc[s] = "Recv" /\ queue[s] = <<>>

\* C28: a consumer suspended in Fetcher::next on a Fetcher whose task has
\* ended comes out of the call.
C28_ReleasedWhenTaskEnded ==
    \A c \in Consumers :
       (cpc[c] = "wait" /\ fpc \in {"Ended", "Panicked"}) ~> (cpc[c] = "idle")

\* The step in which the task stores the result of a response.
StoresResponse == fpc = "Store" /\ fpc' # "Store" /\ resp # NoResp

\* C29: a response whose body has been read is stored, whatever its
\* status; the store publishes one result, whose error flag is set exactly
\* when the status is not a success and whose url is the payload's; and
\* nothing but a store publishes.
C29_PublishedWhateverStatus ==
    [][/\ (fpc = "Read" /\ fpc' \notin {"Read", "Timer"}) =>
             (fpc' = "Store" /\ resp' = resp)
       /\ StoresResponse =>
             /\ produced < MaxTicks => produced' = produced + 1
             /\ last_data' = produced'
             /\ newest'.url = PayloadUrl
             /\ newest'.status = resp.status
             /\ newest'.error = (resp.status < 200 \/ resp.status > 299)
       /\ (produced' # produced \/ newest' # newest) =>
             fpc = "Store"]_vars

\* The newest result is that of a 404 response, published with the error
\* flag set, after a result without it.
C29_Witness ==
    /\ produced = 2 /\ last_data = 2
    /\ newest.status = 404 /\ newest.error
    /\ \E c \in Consumers : got[c] = <<1>>

\* ------------------------------------------------------------- math_utils

\* A Decimal, and the unit 10^-d, as whole numbers of 10^-(MaxScale + 1).
Val(a) == a.m * Pow10(MaxScale + 1 - a.s)

Unit(d) == Pow10(MaxScale + 1 - d)

\* C30: for every value and decimals both functions return a multiple of
\* the unit 10^-decimals on the side of zero the value is on, the floor no
\* farther from zero than the value and the ceil no nearer; the two are
\* equal for a value that is a multiple of the unit and one unit apart for
\* any other.
C30_RoundingBrackets ==
    res.called =>
       LET v == Val(arg.value)
           u == Unit(arg.decimals)
           f == Val(res.floor)
           c == Val(res.ceil)
       IN /\ res.floor.ok /\ res.ceil.ok
          /\ f % u = 0 /\ c % u = 0
          /\ v >= 0 => (f >= 0 /\ c >= 0)
          /\ v <= 0 => (f <= 0 /\ c <= 0)
          /\ Abs(f) <= Abs(v) /\ Abs(v) <= Abs(c)
          /\ v % u = 0 => f = c
          /\ v % u # 0 => Abs(c) - Abs(f) = u

\* C31: for every value and decimals round_to_decimals returns a multiple
\* of the unit 10^-decimals no farther than half a unit from the value, and
\* for a value halfway between two multiples the one that is an even
\* number of units.
C31_RoundsHalfToEven ==
    res.called =>
       LET v == Val(arg.value)
           u == Unit(arg.decimals)
           r == Val(res.round)
       IN /\ res.round.ok
          /\ r % u = 0
          /\ 2 * Abs(r - v) <= u
          /\ 2 * Abs(r - v) = u => (Abs(r) \div u) % 2 = 0

\* The request of the current tick is in flight: execute(req) has been
\* polled and has not resolved, or the body of its response is being read.
InFlight == (fpc = "Select" /\ polled) \/ fpc = "Read"

\* C32: a Fetcher task has one request in flight at most and stores one
\* result per tick at most: a request is dispatched only by the iteration
\* of the current tick, the next tick is taken only when the request has
\* completed, failed or been abandoned, and a result is stored only once
\* between two ticks.
C32_OneRequestPerTick ==
    [][/\ (polled' /\ ~polled) => (fpc = "Select" /\ ~InFlight)
       /\ InFlight => (ticks' = ticks /\ fpc' \in {"Select", "Read", "Store", "Timer", "Ended"})
       /\ (fpc' = "Build" /\ fpc # "Build") => (fpc = "Timer" /\ ~InFlight)
       /\ (fpc' = "Store" /\ fpc # "Store") => fpc \in {"Build", "Read"}
       /\ (produced' # produced \/ last_data' > last_data)
             => (fpc = "Store" /\ fpc' = "Notify")
       /\ fpc = "Notify" => fpc' \in {"Notify", "Timer"}]_vars

\* The second request is in flight after the first one has been answered.
C32_Witness == InFlight /\ ticks = 2 /\ produced = 1

\* C33: the fetchers lock is held only inside Session::subscribe, by a
\* thread whose next step is the rest of the call and waits for nothing:
\* the holder is never receiving from the queue, sleeping or stopped, and
\* a lock that is held is released.
C33_LockHeldOnlyInSubscribe ==
    /\ [](\A s \in Scripts :
            lock = s => (pc[s] = "Sub" /\ ENABLED SubscribeAttach(s)))
    /\ \A s \in Scripts : (lock = s) ~> (lock = "free")

\* One Session is inside subscribe with the lock while the other is
\* blocked in next().
C33_Witness ==
    \E s, o \in Scripts : s # o /\ lock = s /\ pc[o] = "Recv"

\* The client a request is dispatched on:
\* clients[local_address_index % clients.len()], by its position.
ClientOf(i) == i % Clients(route)

\* C34: without primary_only and with a list of k addresses, each request
\* is dispatched on the address that follows, cyclically, the address of
\* the request before it; with primary_only every request is dispatched
\* on the one default client.
C34_RoundRobin ==
    [][local_address_index' # local_address_index =>
          /\ route.primary_only => ClientOf(local_address_index') = 0
          /\ (~route.primary_only /\ route.addrs > 0) =>
                ClientOf(local_address_index')
                   = (ClientOf(local_address_index) + 1) % route.addrs]_vars

\* C35: the period of a Fetcher is that of the subscribe call that
\* created it: no later step changes it, and a subscribe call that finds
\* the Fetcher in the registry, whatever its own period, spawns no task
\* and attaches the Session to the Fetcher as it is.
C35_PeriodFixedAtCreation ==
    [][/\ \A f \in Fingerprints :
             periods[f] # 0 => periods'[f] = periods[f]
       /\ \A s \in Scripts :
             (pc[s] = "Sub" /\ pc'[s] = "Run" /\ sub[s].entry = "occupied") =>
                /\ pollers' = pollers
                /\ periods'[Fingerprint(sub[s].t)] # 0
                /\ \E b \in BridgeIds :
                      /\ bridges[b].st = "free" /\ bridges'[b].st = "wait"
                      /\ bridges'[b].sess = s
                      /\ bridges'[b].t = sub[s].t]_vars

\* A Session is attached to a Fetcher that runs at another period than the
\* one the Session asked for.
C35_Witness ==
    \E b \in BridgeIds :
       /\ bridges[b].st = "wait"
       /\ bridges[b].period # periods[Fingerprint(bridges[b].t)]

\* C36: a call of Fetcher::next that is pending while the slot holds a
\* result returns, unless another caller takes the result first or the
\* task stores a further one.
C36_PendingNextReturns ==
    \A c \in Consumers, n \in 1..MaxTicks :
       (cpc[c] # "idle" /\ last_data # 0 /\ produced = n)
          ~> (cpc[c] = "idle" \/ last_data = 0 \/ produced # n)

\* C37: a panic raised inside Session::subscribe or Session::next is
\* handled like any other: no supervisor thread ends in a panic, and a
\* script that calls subscribe while the registry is not in use gets its
\* subscription, whatever panics there have been.
C37_FaultInsideSessionHandled ==
    /\ \A s \in Scripts : pc[s] # "Panicked"
    /\ \A s \in Scripts, t \in OneTarget :
          (Running /\ pc[s] = "Run" /\ LockAvailable /\ FreeSlots # {})
             => ENABLED SubscribeEntry(s, t)

\* C38: after the termination signal every supervisor thread reaches
\* Stopped, wherever the signal finds it, its script returning or failing
\* when next() hands it Nil.
C38_AllStopAfterSignal ==
    \A s \in Scripts : TERMINATE ~> (pc[s] = "Stopped")

\* The positions of the loop between LuaInstance::new and the end of the
\* script body.
AttemptPcs == {"Kill", "Run", "Sub", "SubErr", "Recv"}

\* C39: the context of an attempt is dropped, and its atexit run, once,
\* when the attempt ends, however it ends: no context is alive during the
\* backoff sleep or at the loop top, and the next one is constructed only
\* after the drop.
C39_AtexitOncePerAttempt ==
    /\ [](\A s \in Scripts :
            /\ lua[s].atexit <= 1
            /\ lua[s].live => (pc[s] \in AttemptPcs /\ lua[s].atexit = 0)
            /\ pc[s] = "Backoff" => (~lua[s].live /\ lua[s].atexit = 1))
    /\ [][\A s \in Scripts :
             /\ (pc[s] \in AttemptPcs /\ pc'[s] \notin AttemptPcs) =>
                   (lua[s].live /\ lua'[s] = [live |-> FALSE, atexit |-> 1])
             /\ (lua'[s].live /\ lua'[s] # lua[s]) =>
                   (pc[s] = "New" /\ ~lua[s].live)]_vars

\* One attempt has ended in a fault and its supervisor sleeps, another has
\* returned: each context has run its atexit.
C39_Witness ==
    \E s, o \in Scripts :
       /\ pc[s] = "Backoff" /\ outcome[s] = "fault" /\ lua[s].atexit = 1
       /\ pc[o] = "Stopped" /\ outcome[o] = "ok" /\ lua[o].atexit = 1

====
